---- MODULE Spec2Model ----
(***************************************************************************)
(* Verification model of the VeroBrix analysis core                        *)
(* (src/backend/sample_bills/VB-main): the provenance ledger               *)
(* (modules/provenance_logger.py), the analysis pipeline                   *)
(* (verobrix_launcher.py) and the situation classifier                     *)
(* (modules/situation_interpreter.py).                                     *)
(***************************************************************************)
EXTENDS Integers, Sequences, FiniteSets, TLC

VARIABLES
    entries,      \* ProvenanceLogger.entries: the in-memory ledger
    masterLog,    \* lines this session appended to master_provenance.jsonl
    sessionDoc,   \* content of session_<id>.json
    lock,         \* ProvenanceLogger._lock: the holding thread, or NoThread
    clock,        \* datetime.datetime.now()
    nextId,       \* uuid.uuid4(): the next fresh entry id
    pc,           \* per thread: position in the running operation
    loc,          \* per thread: local variables of the running operation
    tampered,     \* entry ids mutated from outside the ledger
    ioLeft,       \* I/O failures the filesystem may still produce
    opsDone,      \* start ids of the track_operation uses that have exited
    lastCall,     \* outcome of the log_action call that ended last
    callsLeft,    \* log_action calls the run may still make
    inputs,       \* the input_data values the callers of the run pass
    ret,          \* what the last query of the ledger returned
    text,         \* the input text of the classifier / the pipeline (its words)
    context,      \* the context argument handed with the text
    results,      \* what the interpret_situation calls on the text returned
    scores,       \* _identify_situation_type: the scores dict of the last call
    apc,          \* position of the analysis pipeline (VeroBrixSystem)
    fridayLog,    \* lines appended to logs/friday_agent.log
    stageMarks,   \* analytical stages run so far, each with the ledger length then
    globalLogger,   \* _global_provenance_logger: the instance, or NoLogger
    loggersCreated, \* ProvenanceLogger instances constructed in the process
    provenance,     \* entries logged through log_provenance, each with its logger
    gpc,            \* per thread: position in log_provenance
    localLogger,    \* per thread: the instance get_provenance_logger handed out
    _config,           \* ConfigManager._config: section name -> value
    _config_file_path  \* ConfigManager._config_file_path, or NoPath

lvars == <<entries, masterLog, sessionDoc, lock, clock, nextId, pc, loc,
           tampered, ioLeft, opsDone, lastCall, callsLeft, inputs, ret>>

cvars == <<text, context, results, scores>>

gvars == <<globalLogger, loggersCreated, provenance, gpc, localLogger>>

kvars == <<_config, _config_file_path>>

avars == <<apc, fridayLog, stageMarks, gvars, kvars>>

vars == <<lvars, cvars, avars>>

----------------------------------------------------------------------------
(* Bounds of the model *)

MaxCalls == 3        \* log_action calls per run
MaxClock == 1        \* the latest reading of the wall clock
MaxIOFailures == 1   \* I/O failures the filesystem produces per run
MaxTamper == 1       \* entries mutated from outside per run

AllThreads == {"t1", "t2"}
NoThread == "none"

----------------------------------------------------------------------------
(* Values *)

None == "None"
NoId == 0
NoHash == <<>>
SessionId == "session"

\* A Python value handed to log_action as input_data / output_data:
\* its type, its truth value, its string form (json.dumps(sort_keys) of a
\* dict, str() of anything else) and whether that conversion raises.
NoneV   == [kind |-> "NoneType", text |-> "None", truthy |-> FALSE, raises |-> FALSE]
StrX    == [kind |-> "str",  text |-> "x",  truthy |-> TRUE,  raises |-> FALSE]
StrE    == [kind |-> "str",  text |-> "",   truthy |-> FALSE, raises |-> FALSE]
DictBad == [kind |-> "dict", text |-> "",   truthy |-> TRUE,  raises |-> TRUE]

OutputValues == {NoneV}

ActionTypes == {"analysis"}
Descriptions == {"d1"}
BodyOutcomes == {"return", "Exception", "BaseException"}

NoArgs == [action_type |-> None, action_description |-> None, agent_name |-> None,
           input_data |-> NoneV, output_data |-> NoneV,
           legal_context |-> None, sovereignty_score |-> None,
           confidence_level |-> None, parent_entry_id |-> NoId]

NoEntry == [entry_id |-> NoId, timestamp |-> 0, session_id |-> None,
            agent_name |-> None, human_operator |-> None, system_version |-> None,
            action_type |-> None, action_description |-> None,
            input_hash |-> NoHash, output_hash |-> NoHash,
            document_path |-> None, legal_context |-> None,
            sovereignty_score |-> None, confidence_level |-> None,
            parent_entry_id |-> NoId, related_entries |-> <<>>,
            entry_hash |-> NoHash]

NoIntegrity == [total_entries |-> 0, verified_entries |-> 0,
                corrupted_entries |-> <<>>, missing_hashes |-> <<>>,
                integrity_percentage |-> [num |-> 0, den |-> 1]]

\* _initialize_session: the document written at construction.  The keys
\* close_session adds later are carried from the start with the value
\* "absent" / -1 / NoIntegrity.
InitialSessionDoc == [session_id |-> SessionId, start_time |-> 0,
                      entries |-> <<>>, last_updated |-> -1,
                      status |-> "absent", end_time |-> -1,
                      final_entry_count |-> -1, integrity_check |-> NoIntegrity]

\* What the caller of log_action gets: the entry id ("returned") or an
\* exception ("raised"), and whether persisting the entry failed in the call.
NoCall == [outcome |-> "none", persist_failed |-> FALSE]

LocInit == [ctx |-> "none", args |-> NoArgs, entry |-> NoEntry,
            sdata |-> InitialSessionDoc, start_id |-> NoId,
            persist_failed |-> FALSE,
            summary_count |-> -1, integrity |-> NoIntegrity]

----------------------------------------------------------------------------
(* Hashing *)

\* _generate_hash: SHA-256 of the string form of the content, cut to 16 hex
\* digits.  The digest is modelled as collision-free: it is the tagged string
\* form itself, so two contents hash alike exactly when their string forms
\* are equal (str(0) and "0" do).
_generate_hash(content) == <<"sha256", content.text>>

EntryJsonNoDescription(e) ==
    <<e.action_type, e.agent_name, e.confidence_level,
      e.document_path, e.entry_id, e.human_operator, e.input_hash,
      e.legal_context, e.output_hash, e.parent_entry_id, e.related_entries,
      e.session_id, e.sovereignty_score, e.system_version, e.timestamp>>

\* json.dumps(asdict(entry) minus 'entry_hash', sort_keys=True): the fields in
\* key order.
EntryJson(e) ==
    <<e.action_description, e.action_type, e.agent_name, e.confidence_level,
      e.document_path, e.entry_id, e.human_operator, e.input_hash,
      e.legal_context, e.output_hash, e.parent_entry_id, e.related_entries,
      e.session_id, e.sovereignty_score, e.system_version, e.timestamp>>

EntryDictContent(e) ==
    [kind |-> "dict", text |-> EntryJson(e), truthy |-> TRUE, raises |-> FALSE]

_generate_entry_hash_keeps_hash(entry) ==
    _generate_hash([kind |-> "dict", text |-> <<EntryJson(entry), entry.entry_hash>>,
                    truthy |-> TRUE, raises |-> FALSE])

_generate_entry_hash(entry) == _generate_hash(EntryDictContent(entry))

\* log_action lines 163-164: "if input_data else None"
ContentHash(data) == IF data.truthy THEN _generate_hash(data) ELSE NoHash

\* log_action lines 163-164: hashing raises when the content cannot be
\* converted (json.dumps of a dict holding a non-JSON value).
HashRaises(args) ==
    \/ args.input_data.truthy /\ args.input_data.raises
    \/ args.output_data.truthy /\ args.output_data.raises

\* log_action lines 160-187: the entry, with its integrity hash.
MakeEntry(id, now, args) ==
    LET e == [entry_id |-> id, timestamp |-> now, session_id |-> SessionId,
              agent_name |-> args.agent_name, human_operator |-> None,
              system_version |-> "VeroBrix v2.0",
              action_type |-> args.action_type,
              action_description |-> args.action_description,
              input_hash |-> ContentHash(args.input_data),
              output_hash |-> ContentHash(args.output_data),
              document_path |-> None, legal_context |-> args.legal_context,
              sovereignty_score |-> args.sovereignty_score,
              confidence_level |-> args.confidence_level,
              parent_entry_id |-> args.parent_entry_id,
              related_entries |-> <<>>, entry_hash |-> NoHash]
    IN  [e EXCEPT !.entry_hash = _generate_entry_hash(e)]

----------------------------------------------------------------------------
(* verify_integrity *)

SeqMap(f(_), s) == [i \in 1..Len(s) |-> f(s[i])]

IsMissing(e) == e.entry_hash = NoHash
IsVerified(e) == ~IsMissing(e) /\ _generate_entry_hash(e) = e.entry_hash
IsCorrupted(e) == ~IsMissing(e) /\ _generate_entry_hash(e) # e.entry_hash

CorruptedRecord(e) == [entry_id |-> e.entry_id, stored_hash |-> e.entry_hash,
                       calculated_hash |-> _generate_entry_hash(e)]
IdOf(e) == e.entry_id

\* The percentage is kept as the exact fraction num/den.
verify_integrity(es) ==
    LET total == Len(es)
        verified == Len(SelectSeq(es, IsVerified))
    IN  [total_entries |-> total,
         verified_entries |-> verified,
         corrupted_entries |-> SeqMap(CorruptedRecord, SelectSeq(es, IsCorrupted)),
         missing_hashes |-> SeqMap(IdOf, SelectSeq(es, IsMissing)),
         integrity_percentage |->
             IF total > 0 THEN [num |-> verified * 100, den |-> total]
                          ELSE [num |-> 100, den |-> 1]]

PctIs100(p) == p.num = 100 * p.den
PctBelow100(p) == p.num < 100 * p.den

----------------------------------------------------------------------------
(* The ledger: ProvenanceLogger *)

NoRet == [op |-> "none", value |-> None]

\* The ledger after ProvenanceLogger.__init__, used by the threads ths (the
\* other threads are "off" and never call it); the
\* run makes at most nCalls log_action calls and meets at most nFail I/O
\* failures, its callers pass the input_data values ins, and the wall clock
\* shows start.
LedgerInit(ths, nCalls, nFail, ins, start) ==
    /\ inputs = ins
    /\ ret = NoRet
    /\ entries = <<>>
    /\ masterLog = <<>>
    /\ sessionDoc = InitialSessionDoc
    /\ lock = NoThread
    /\ clock = start
    /\ nextId = 1
    /\ pc = [t \in AllThreads |-> IF t \in ths THEN "idle" ELSE "off"]
    /\ loc = [t \in AllThreads |-> LocInit]
    /\ tampered = {}
    /\ ioLeft = nFail
    /\ opsDone = {}
    /\ lastCall = NoCall
    /\ callsLeft = nCalls

\* datetime.datetime.now() at line 169: the wall clock does not run
\* backwards; it is at the last reading or later.
Now == clock..MaxClock

\* "with self._lock" (line 158): the section is entered when no thread holds
\* the lock.
AcquirableNoLock(l) == TRUE

Acquirable(l) == l = NoThread

\* lines 190-191: self.entries.append(entry)
StoreEntryFront(es, e) == <<e>> \o es

StoreEntry(es, e) == Append(es, e)

\* _persist_entry lines 213-214, on the document read at lines 210-211
UpdatedSessionData(sdata, e, now) ==
    [sdata EXCEPT !.entries = Append(@, e), !.last_updated = now]

\* close_session lines 367-372
ClosedSessionData(sdata, now, count, integrity) ==
    [sdata EXCEPT !.end_time = now, !.final_entry_count = count,
                  !.integrity_check = integrity, !.status = "closed"]

\* Arguments of the log_action calls made by track_operation and
\* close_session (the duration and the exception text of the descriptions
\* are left out).
StartArgs == [NoArgs EXCEPT !.action_type = "operation_start",
                            !.action_description = "Started operation: op",
                            !.agent_name = "System"]
CompleteArgs(sid) == [NoArgs EXCEPT !.action_type = "operation_complete",
                            !.action_description = "Completed operation: op",
                            !.agent_name = "System",
                            !.parent_entry_id = sid,
                            !.confidence_level = "1.0"]
ErrorArgs(sid) == [NoArgs EXCEPT !.action_type = "operation_error",
                            !.action_description = "Failed operation: op",
                            !.agent_name = "System",
                            !.parent_entry_id = sid,
                            !.confidence_level = "0.0"]
CloseArgs == [NoArgs EXCEPT !.action_type = "session_close",
                            !.action_description = "Provenance session closed",
                            !.agent_name = "ProvenanceLogger"]


\* Where a thread goes when its log_action call ends, by the caller of the
\* call: [pc, loc, done] with done the start id of a track_operation use that
\* exits here (NoId if none does).
\*   direct      the caller of log_action gets the id or the exception
\*   op_start    track_operation lines 299-304, then the body (line 307)
\*   op_complete lines 311-317 inside the try: an exception raised here is
\*               caught by "except Exception" (line 319)
\*   op_error    lines 322-329: the exception is raised again either way
\*   close       close_session lines 352-356, then lines 359-375
AfterLogAction(l, raised) ==
    CASE l.ctx = "op_start" /\ ~raised ->
            [pc |-> "op_body",
             loc |-> [LocInit EXCEPT !.ctx = "op_start",
                                                  !.start_id = l.entry.entry_id],
             done |-> NoId]
      [] l.ctx = "op_complete" /\ raised ->
            [pc |-> "la_lock",
             loc |-> [LocInit EXCEPT !.ctx = "op_error",
                                                !.start_id = l.start_id,
                                                !.args = ErrorArgs(l.start_id)],
             done |-> NoId]
      [] l.ctx = "op_complete" /\ ~raised ->
            [pc |-> "idle", loc |-> LocInit, done |-> l.start_id]
      [] l.ctx = "op_error" ->
            [pc |-> "idle",
             loc |-> LocInit,
             done |-> l.start_id]
      [] l.ctx = "close" /\ ~raised ->
            [pc |-> "cs_summary",
             loc |-> [LocInit EXCEPT !.ctx = "close"],
             done |-> NoId]
      [] OTHER ->
            [pc |-> "idle",
             loc |-> LocInit,
             done |-> NoId]

\* The end of a log_action call of thread t whose locals are l: the lock is
\* released ("with" exits, on return and on exception alike).
EndLogAction(t, l, raised) ==
    LET a == AfterLogAction(l, raised) IN
    /\ pc' = [pc EXCEPT ![t] = a.pc]
    /\ loc' = [loc EXCEPT ![t] = a.loc]
    /\ opsDone' = IF a.done = NoId THEN opsDone ELSE opsDone \cup {a.done}
    /\ lastCall' = [outcome |-> IF raised THEN "raised" ELSE "returned",
                    persist_failed |-> l.persist_failed]
    /\ lock' = NoThread

\* A direct call log_action(action_type, action_description, ...).
CallLogAction(t) ==
    /\ UNCHANGED <<inputs, ret, cvars, avars>>
    /\ pc[t] = "idle"
    /\ callsLeft >= 1
    /\ \E ty \in ActionTypes, d \in Descriptions,
          i \in inputs, o \in OutputValues :
          loc' = [loc EXCEPT ![t] =
                    [LocInit EXCEPT !.ctx = "direct",
                         !.args = [NoArgs EXCEPT !.action_type = ty,
                                                 !.action_description = d,
                                                 !.agent_name = "System",
                                                 !.input_data = i,
                                                 !.output_data = o]]]
    /\ pc' = [pc EXCEPT ![t] = "la_lock"]
    /\ callsLeft' = callsLeft - 1
    /\ UNCHANGED <<entries, masterLog, sessionDoc, lock, clock, nextId,
                   tampered, ioLeft, opsDone, lastCall>>

\* log_action lines 158-187: enter the critical section, draw the id, hash
\* the contents, read the clock, build the entry and its integrity hash.  If
\* hashing raises, the call ends here and nothing was stored.
LaCreate(t) ==
    /\ UNCHANGED <<inputs, ret, cvars, avars>>
    /\ pc[t] = "la_lock"
    /\ Acquirable(lock)
    /\ IF HashRaises(loc[t].args)
       THEN /\ EndLogAction(t, loc[t], TRUE)
            /\ nextId' = nextId + 1
            /\ UNCHANGED clock
       ELSE /\ \E now \in Now :
                 /\ clock' = now
                 /\ loc' = [loc EXCEPT ![t].entry = MakeEntry(nextId, now, loc[t].args)]
            /\ pc' = [pc EXCEPT ![t] = "la_store"]
            /\ lock' = t
            /\ nextId' = nextId + 1
            /\ UNCHANGED <<opsDone, lastCall>>
    /\ UNCHANGED <<entries, masterLog, sessionDoc, tampered,
                   ioLeft, callsLeft>>

\* log_action lines 189-191
LaStore(t) ==
    /\ UNCHANGED <<inputs, ret, cvars, avars>>
    /\ pc[t] = "la_store"
    /\ entries' = StoreEntry(entries, loc[t].entry)
    /\ pc' = [pc EXCEPT ![t] = "la_master"]
    /\ UNCHANGED <<masterLog, sessionDoc, lock, clock, nextId, loc, tampered,
                   ioLeft, opsDone, lastCall, callsLeft>>

\* _persist_entry lines 204-206: append the record to the master log.  The
\* write is outside the try block: a failure propagates out of log_action.
LaMaster(t) ==
    /\ UNCHANGED <<inputs, ret, cvars, avars>>
    /\ pc[t] = "la_master"
    /\ \/ /\ masterLog' = Append(masterLog, loc[t].entry)
          /\ pc' = [pc EXCEPT ![t] = "la_sread"]
          /\ UNCHANGED <<ioLeft, loc, lock, opsDone, lastCall>>
       \/ /\ ioLeft > 0
          /\ ioLeft' = ioLeft - 1
          /\ EndLogAction(t, [loc[t] EXCEPT !.persist_failed = TRUE], TRUE)
          /\ UNCHANGED masterLog
    /\ UNCHANGED <<entries, sessionDoc, clock, nextId, tampered, callsLeft>>

\* _persist_entry lines 209-211: read the session document.  A failure is
\* caught (line 219) and log_action returns the id.
LaSessionRead(t) ==
    /\ UNCHANGED <<inputs, ret, cvars, avars>>
    /\ pc[t] = "la_sread"
    /\ \/ /\ loc' = [loc EXCEPT ![t].sdata = sessionDoc]
          /\ pc' = [pc EXCEPT ![t] = "la_swrite"]
          /\ UNCHANGED <<ioLeft, lock, opsDone, lastCall>>
       \/ /\ ioLeft > 0
          /\ ioLeft' = ioLeft - 1
          /\ EndLogAction(t, [loc[t] EXCEPT !.persist_failed = TRUE], FALSE)
    /\ UNCHANGED <<entries, masterLog, sessionDoc, clock, nextId, tampered, callsLeft>>

\* _persist_entry lines 213-220 and log_action lines 196-198: write the
\* document back with the entry appended, and return the id.
LaSessionWrite(t) ==
    /\ UNCHANGED <<inputs, ret, cvars, avars>>
    /\ pc[t] = "la_swrite"
    /\ \/ /\ sessionDoc' = UpdatedSessionData(loc[t].sdata, loc[t].entry, clock)
          /\ EndLogAction(t, loc[t], FALSE)
          /\ UNCHANGED ioLeft
       \/ /\ ioLeft > 0
          /\ ioLeft' = ioLeft - 1
          /\ EndLogAction(t, [loc[t] EXCEPT !.persist_failed = TRUE], FALSE)
          /\ UNCHANGED sessionDoc
    /\ UNCHANGED <<entries, masterLog, clock, nextId, tampered, callsLeft>>

\* track_operation lines 296-304: log the start entry.
CallTrackOperation(t) ==
    /\ UNCHANGED <<inputs, ret, cvars, avars>>
    /\ pc[t] = "idle"
    /\ callsLeft >= 3
    /\ callsLeft' = callsLeft - 3
    /\ loc' = [loc EXCEPT ![t] = [LocInit EXCEPT !.ctx = "op_start",
                                                 !.args = StartArgs]]
    /\ pc' = [pc EXCEPT ![t] = "la_lock"]
    /\ UNCHANGED <<entries, masterLog, sessionDoc, lock, clock, nextId,
                   tampered, ioLeft, opsDone, lastCall>>

\* track_operation lines 306-329: the body of the with statement ends.  It
\* returns (the complete entry is logged), raises an Exception (the error
\* entry is logged) or raises a BaseException that is no Exception, such as
\* KeyboardInterrupt, which "except Exception" does not catch.
OpBody(t) ==
    /\ UNCHANGED <<inputs, ret, cvars, avars>>
    /\ pc[t] = "op_body"
    /\ \E o \in BodyOutcomes :
         CASE o = "return" ->
                /\ loc' = [loc EXCEPT ![t] =
                            [LocInit EXCEPT !.ctx = "op_complete",
                                            !.start_id = loc[t].start_id,
                                            !.args = CompleteArgs(loc[t].start_id)]]
                /\ pc' = [pc EXCEPT ![t] = "la_lock"]
                /\ UNCHANGED opsDone
           [] o = "Exception" ->
                /\ loc' = [loc EXCEPT ![t] =
                            [LocInit EXCEPT !.ctx = "op_error",
                                            !.start_id = loc[t].start_id,
                                            !.args = ErrorArgs(loc[t].start_id)]]
                /\ pc' = [pc EXCEPT ![t] = "la_lock"]
                /\ UNCHANGED opsDone
           [] OTHER ->
                /\ loc' = [loc EXCEPT ![t] = LocInit]
                /\ pc' = [pc EXCEPT ![t] = "idle"]
                /\ opsDone' = opsDone \cup {loc[t].start_id}
    /\ UNCHANGED <<entries, masterLog, sessionDoc, lock, clock, nextId,
                   tampered, ioLeft, lastCall, callsLeft>>

\* close_session lines 351-356: log the session_close entry.
CallCloseSession(t) ==
    /\ UNCHANGED <<inputs, ret, cvars, avars>>
    /\ pc[t] = "idle"
    /\ callsLeft >= 1
    /\ callsLeft' = callsLeft - 1
    /\ loc' = [loc EXCEPT ![t] = [LocInit EXCEPT !.ctx = "close",
                                                 !.args = CloseArgs]]
    /\ pc' = [pc EXCEPT ![t] = "la_lock"]
    /\ UNCHANGED <<entries, masterLog, sessionDoc, lock, clock, nextId,
                   tampered, ioLeft, opsDone, lastCall>>

\* close_session line 359: get_session_summary (entry_count)
CsSummary(t) ==
    /\ UNCHANGED <<inputs, ret, cvars, avars>>
    /\ pc[t] = "cs_summary"
    /\ loc' = [loc EXCEPT ![t].summary_count = Len(entries)]
    /\ pc' = [pc EXCEPT ![t] = "cs_verify"]
    /\ UNCHANGED <<entries, masterLog, sessionDoc, lock, clock, nextId,
                   tampered, ioLeft, opsDone, lastCall, callsLeft>>

\* close_session line 360: verify_integrity
CsVerify(t) ==
    /\ UNCHANGED <<inputs, ret, cvars, avars>>
    /\ pc[t] = "cs_verify"
    /\ loc' = [loc EXCEPT ![t].integrity = verify_integrity(entries)]
    /\ pc' = [pc EXCEPT ![t] = "cs_read"]
    /\ UNCHANGED <<entries, masterLog, sessionDoc, lock, clock, nextId,
                   tampered, ioLeft, opsDone, lastCall, callsLeft>>

\* close_session lines 364-365: read the session document, outside the lock.
\* A failure is caught (line 377).
CsRead(t) ==
    /\ UNCHANGED <<inputs, ret, cvars, avars>>
    /\ pc[t] = "cs_read"
    /\ \/ /\ loc' = [loc EXCEPT ![t].sdata = sessionDoc]
          /\ pc' = [pc EXCEPT ![t] = "cs_write"]
          /\ UNCHANGED ioLeft
       \/ /\ ioLeft > 0
          /\ ioLeft' = ioLeft - 1
          /\ loc' = [loc EXCEPT ![t] = LocInit]
          /\ pc' = [pc EXCEPT ![t] = "idle"]
    /\ UNCHANGED <<entries, masterLog, sessionDoc, lock, clock, nextId,
                   tampered, opsDone, lastCall, callsLeft>>

\* close_session lines 367-375: write the document back with the closing
\* summary, outside the lock.
CsWrite(t) ==
    /\ UNCHANGED <<inputs, ret, cvars, avars>>
    /\ pc[t] = "cs_write"
    /\ \/ /\ sessionDoc' = ClosedSessionData(loc[t].sdata, clock,
                                             loc[t].summary_count, loc[t].integrity)
          /\ UNCHANGED ioLeft
       \/ /\ ioLeft > 0
          /\ ioLeft' = ioLeft - 1
          /\ UNCHANGED sessionDoc
    /\ loc' = [loc EXCEPT ![t] = LocInit]
    /\ pc' = [pc EXCEPT ![t] = "idle"]
    /\ UNCHANGED <<entries, masterLog, lock, clock, nextId, tampered,
                   opsDone, lastCall, callsLeft>>

\* An outside mutation: the action_description of a stored entry is changed
\* and its entry_hash is left as it was.
Tamper ==
    /\ \A t \in AllThreads : pc[t] \in {"idle", "off"}
    /\ Cardinality(tampered) < MaxTamper
    /\ \E i \in 1..Len(entries) :
          /\ entries[i].entry_id \notin tampered
          /\ entries' = [entries EXCEPT ![i].action_description = "tampered"]
          /\ tampered' = tampered \cup {entries[i].entry_id}
    /\ UNCHANGED <<inputs, ret, masterLog, sessionDoc, lock, clock, nextId, pc, loc,
                   ioLeft, opsDone, lastCall, callsLeft, cvars, avars>>

\* The queries of the ledger.  Each runs without the lock and is taken as
\* one step; a query changes nothing but what its caller is handed.
QueryFrame == UNCHANGED <<entries, masterLog, sessionDoc, lock, clock, nextId,
                          pc, loc, tampered, ioLeft, opsDone, lastCall,
                          callsLeft, inputs, cvars, avars>>

EntriesWith(Test(_)) == SelectSeq(entries, Test)

\* get_entry lines 222-224: entry_index.get(entry_id); the index holds the
\* objects of the list.
get_entry(entry_id) ==
    LET HasId(e) == e.entry_id = entry_id
        found == EntriesWith(HasId)
    IN  IF found = <<>> THEN NoEntry ELSE found[1]

\* get_entries_by_agent lines 226-228
get_entries_by_agent(agent_name) ==
    LET ByAgent(e) == e.agent_name = agent_name IN EntriesWith(ByAgent)

\* get_entries_by_type lines 230-232
get_entries_by_type(action_type) ==
    LET ByType(e) == e.action_type = action_type IN EntriesWith(ByType)

\* get_session_summary lines 234-261 (the duration and the average score,
\* which no modelled call sets, are left out)
get_session_summary ==
    [session_id |-> SessionId, start_time |-> 0, entry_count |-> Len(entries),
     agents |-> {entries[i].agent_name : i \in 1..Len(entries)},
     action_types |-> {entries[i].action_type : i \in 1..Len(entries)}]

\* export_session lines 331-344: the content of the export file
export_session ==
    [session_info |-> get_session_summary, entries |-> entries,
     integrity_check |-> verify_integrity(entries)]

GetEntry(t) ==
    /\ pc[t] = "idle"
    /\ \E id \in 1..nextId :
          ret' = [op |-> "get_entry", value |-> get_entry(id)]
    /\ QueryFrame

GetEntriesByAgent(t) ==
    /\ pc[t] = "idle"
    /\ \E a \in {"System", "ProvenanceLogger"} :
          ret' = [op |-> "get_entries_by_agent", value |-> get_entries_by_agent(a)]
    /\ QueryFrame

GetEntriesByType(t) ==
    /\ pc[t] = "idle"
    /\ \E ty \in ActionTypes \cup {"operation_start", "session_close"} :
          ret' = [op |-> "get_entries_by_type", value |-> get_entries_by_type(ty)]
    /\ QueryFrame

GetSessionSummary(t) ==
    /\ pc[t] = "idle"
    /\ ret' = [op |-> "get_session_summary", value |-> get_session_summary]
    /\ QueryFrame

VerifyIntegrity(t) ==
    /\ pc[t] = "idle"
    /\ ret' = [op |-> "verify_integrity", value |-> verify_integrity(entries)]
    /\ QueryFrame

ExportSession(t) ==
    /\ pc[t] = "idle"
    /\ ret' = [op |-> "export_session", value |-> export_session]
    /\ QueryFrame

----------------------------------------------------------------------------
(* The situation classifier: SituationInterpreter *)

MaxWords == 3            \* words of an input text
MaxInterpretCalls == 2   \* interpret_situation calls on one input

\* A text is the sequence of its characters.  The input texts are words of
\* letters separated by single blanks; no word is the single letter v.
Vocabulary ==
    { <<"T", "a", "x">>,
      <<"s", "t", "o", "p">>,
      <<"p", "u", "l", "l", "e", "d">>,
      <<"o", "v", "e", "r">>,
      <<"a", "d", "m", "i", "n">> }

RECURSIVE Join(_)
Join(words) ==
    IF words = <<>> THEN <<>>
    ELSE IF Len(words) = 1 THEN words[1]
    ELSE words[1] \o <<" ">> \o Join(Tail(words))

InputTexts == {Join(w) : w \in UNION {[1..k -> Vocabulary] : k \in 0..MaxWords}}

\* The context argument: None or a non-empty dict.
Contexts == {None, "ctx"}

NoScores == <<>>

ClassifierOff ==
    /\ text = <<>>
    /\ context = None
    /\ results = <<>>
    /\ scores = NoScores

UpperCase == <<"A", "B", "C", "D", "E", "F", "G", "H", "I", "J", "K", "L", "M",
               "N", "O", "P", "Q", "R", "S", "T", "U", "V", "W", "X", "Y", "Z">>
LowerCase == <<"a", "b", "c", "d", "e", "f", "g", "h", "i", "j", "k", "l", "m",
               "n", "o", "p", "q", "r", "s", "t", "u", "v", "w", "x", "y", "z">>

\* str.lower() (line 192), on one character and on a text
LowerChar(c) ==
    IF \E i \in 1..Len(UpperCase) : UpperCase[i] = c
    THEN LowerCase[CHOOSE i \in 1..Len(UpperCase) : UpperCase[i] = c]
    ELSE c

Lower(t) == [i \in 1..Len(t) |-> LowerChar(t[i])]

\* The words of a text: its maximal runs of non-blank characters.  Splitting
\* and joining again with single blanks is re.sub(r'\s+', ' ', text).strip()
\* (line 195).
RECURSIVE SplitFrom(_, _, _)
SplitFrom(t, k, word) ==
    IF k > Len(t) THEN (IF word = <<>> THEN <<>> ELSE <<word>>)
    ELSE IF t[k] = " "
         THEN (IF word = <<>> THEN <<>> ELSE <<word>>) \o SplitFrom(t, k + 1, <<>>)
         ELSE SplitFrom(t, k + 1, Append(word, t[k]))

Split(t) == SplitFrom(t, 1, <<>>)

\* lines 198-206: the abbreviations, in the order of the dict
abbreviations ==
    << [abbrev |-> <<"d", "e", "p", "t">>,
        full |-> <<"d", "e", "p", "a", "r", "t", "m", "e", "n", "t">>],
       [abbrev |-> <<"g", "o", "v">>,
        full |-> <<"g", "o", "v", "e", "r", "n", "m", "e", "n", "t">>],
       [abbrev |-> <<"a", "d", "m", "i", "n">>,
        full |-> <<"a", "d", "m", "i", "n", "i", "s", "t", "r", "a", "t", "i", "v", "e">>],
       [abbrev |-> <<"r", "e", "g">>,
        full |-> <<"r", "e", "g", "u", "l", "a", "t", "i", "o", "n">>],
       [abbrev |-> <<"s", "e", "c">>,
        full |-> <<"s", "e", "c", "t", "i", "o", "n">>],
       [abbrev |-> <<"v", "s">>,
        full |-> <<"v", "e", "r", "s", "u", "s">>],
       [abbrev |-> <<"v", ".">>,
        full |-> <<"v", "e", "r", "s", "u", "s">>] >>

\* re.sub(r'\b' + abbrev + r'\b', full, text) (line 209) on a word of
\* letters: the word is replaced when the pattern matches all of it.  The
\* dot of 'v.' is the regular expression's wildcard.
AbbrevMatches(abbrev, word) ==
    /\ Len(word) = Len(abbrev)
    /\ \A i \in 1..Len(word) : abbrev[i] = "." \/ abbrev[i] = word[i]

\* lines 208-209: the substitutions, one after the other
RECURSIVE ExpandFrom(_, _)
ExpandFrom(word, k) ==
    IF k > Len(abbreviations) THEN word
    ELSE ExpandFrom(IF AbbrevMatches(abbreviations[k].abbrev, word)
                    THEN abbreviations[k].full ELSE word, k + 1)

ExpandWord(word) == ExpandFrom(word, 1)

\* _normalize_text lines 189-211
_normalize_text(t) ==
    LET words == Split(Lower(t))
    IN  Join([i \in 1..Len(words) |-> ExpandWord(words[i])])

\* _load_situation_patterns: the table, in the order of the dict; every
\* keyword and phrase is the sequence of its characters.
situation_patterns ==
    <<
      [name |-> "traffic_stop",
       keywords |-> <<
            <<"t", "r", "a", "f", "f", "i", "c">>,
            <<"d", "r", "i", "v", "i", "n", "g">>,
            <<"v", "e", "h", "i", "c", "l", "e">>,
            <<"l", "i", "c", "e", "n", "s", "e">>,
            <<"r", "e", "g", "i", "s", "t", "r", "a", "t", "i", "o", "n">>,
            <<"i", "n", "s", "u", "r", "a", "n", "c", "e">>,
            <<"s", "p", "e", "e", "d", "i", "n", "g">>,
            <<"v", "i", "o", "l", "a", "t", "i", "o", "n">>,
            <<"c", "i", "t", "a", "t", "i", "o", "n">>,
            <<"t", "i", "c", "k", "e", "t">>,
            <<"o", "f", "f", "i", "c", "e", "r">>,
            <<"p", "o", "l", "i", "c", "e">>,
            <<"p", "a", "t", "r", "o", "l">>,
            <<"s", "t", "o", "p">>,
            <<"p", "u", "l", "l", "e", "d", " ", "o", "v", "e", "r">> >>,
       phrases |-> <<
            <<"p", "u", "l", "l", "e", "d", " ", "o", "v", "e", "r">>,
            <<"t", "r", "a", "f", "f", "i", "c", " ", "s", "t", "o", "p">>,
            <<"s", "p", "e", "e", "d", "i", "n", "g", " ", "t", "i", "c", "k", "e", "t">>,
            <<"l", "i", "c", "e", "n", "s", "e", " ", "a", "n", "d", " ", "r", "e", "g", "i", "s", "t", "r", "a", "t", "i", "o", "n">>,
            <<"p", "r", "o", "o", "f", " ", "o", "f", " ", "i", "n", "s", "u", "r", "a", "n", "c", "e">>,
            <<"v", "e", "h", "i", "c", "l", "e", " ", "i", "n", "s", "p", "e", "c", "t", "i", "o", "n">>,
            <<"m", "o", "v", "i", "n", "g", " ", "v", "i", "o", "l", "a", "t", "i", "o", "n">> >>],
      [name |-> "fee_demand",
       keywords |-> <<
            <<"f", "e", "e">>,
            <<"f", "i", "n", "e">>,
            <<"p", "e", "n", "a", "l", "t", "y">>,
            <<"c", "h", "a", "r", "g", "e">>,
            <<"p", "a", "y", "m", "e", "n", "t">>,
            <<"b", "i", "l", "l">>,
            <<"i", "n", "v", "o", "i", "c", "e">>,
            <<"a", "s", "s", "e", "s", "s", "m", "e", "n", "t">>,
            <<"t", "a", "x">>,
            <<"l", "e", "v", "y">>,
            <<"c", "o", "l", "l", "e", "c", "t", "i", "o", "n">>,
            <<"d", "e", "m", "a", "n", "d">>,
            <<"n", "o", "t", "i", "c", "e">> >>,
       phrases |-> <<
            <<"p", "a", "y", "m", "e", "n", "t", " ", "d", "u", "e">>,
            <<"f", "e", "e", " ", "s", "c", "h", "e", "d", "u", "l", "e">>,
            <<"p", "e", "n", "a", "l", "t", "y", " ", "a", "s", "s", "e", "s", "s", "m", "e", "n", "t">>,
            <<"c", "o", "l", "l", "e", "c", "t", "i", "o", "n", " ", "n", "o", "t", "i", "c", "e">>,
            <<"f", "i", "n", "a", "l", " ", "d", "e", "m", "a", "n", "d">>,
            <<"a", "d", "m", "i", "n", "i", "s", "t", "r", "a", "t", "i", "v", "e", " ", "f", "e", "e">>,
            <<"p", "r", "o", "c", "e", "s", "s", "i", "n", "g", " ", "c", "h", "a", "r", "g", "e">> >>],
      [name |-> "court_summons",
       keywords |-> <<
            <<"c", "o", "u", "r", "t">>,
            <<"s", "u", "m", "m", "o", "n", "s">>,
            <<"c", "o", "m", "p", "l", "a", "i", "n", "t">>,
            <<"l", "a", "w", "s", "u", "i", "t">>,
            <<"l", "i", "t", "i", "g", "a", "t", "i", "o", "n">>,
            <<"h", "e", "a", "r", "i", "n", "g">>,
            <<"a", "p", "p", "e", "a", "r", "a", "n", "c", "e">>,
            <<"d", "e", "f", "e", "n", "d", "a", "n", "t">>,
            <<"p", "l", "a", "i", "n", "t", "i", "f", "f">>,
            <<"c", "a", "s", "e">>,
            <<"d", "o", "c", "k", "e", "t">>,
            <<"j", "u", "d", "g", "e">> >>,
       phrases |-> <<
            <<"c", "o", "u", "r", "t", " ", "a", "p", "p", "e", "a", "r", "a", "n", "c", "e">>,
            <<"l", "e", "g", "a", "l", " ", "p", "r", "o", "c", "e", "e", "d", "i", "n", "g">>,
            <<"c", "i", "v", "i", "l", " ", "a", "c", "t", "i", "o", "n">>,
            <<"c", "o", "u", "r", "t", " ", "o", "r", "d", "e", "r">>,
            <<"s", "u", "m", "m", "o", "n", "s", " ", "a", "n", "d", " ", "c", "o", "m", "p", "l", "a", "i", "n", "t">>,
            <<"h", "e", "a", "r", "i", "n", "g", " ", "d", "a", "t", "e">>,
            <<"c", "a", "s", "e", " ", "n", "u", "m", "b", "e", "r">> >>],
      [name |-> "contract_dispute",
       keywords |-> <<
            <<"c", "o", "n", "t", "r", "a", "c", "t">>,
            <<"a", "g", "r", "e", "e", "m", "e", "n", "t">>,
            <<"b", "r", "e", "a", "c", "h">>,
            <<"d", "e", "f", "a", "u", "l", "t">>,
            <<"t", "e", "r", "m", "s">>,
            <<"c", "o", "n", "d", "i", "t", "i", "o", "n", "s">>,
            <<"o", "b", "l", "i", "g", "a", "t", "i", "o", "n">>,
            <<"p", "e", "r", "f", "o", "r", "m", "a", "n", "c", "e">>,
            <<"c", "o", "n", "s", "i", "d", "e", "r", "a", "t", "i", "o", "n">>,
            <<"p", "a", "r", "t", "y">>,
            <<"d", "i", "s", "p", "u", "t", "e">> >>,
       phrases |-> <<
            <<"b", "r", "e", "a", "c", "h", " ", "o", "f", " ", "c", "o", "n", "t", "r", "a", "c", "t">>,
            <<"c", "o", "n", "t", "r", "a", "c", "t", " ", "d", "i", "s", "p", "u", "t", "e">>,
            <<"t", "e", "r", "m", "s", " ", "a", "n", "d", " ", "c", "o", "n", "d", "i", "t", "i", "o", "n", "s">>,
            <<"f", "a", "i", "l", "u", "r", "e", " ", "t", "o", " ", "p", "e", "r", "f", "o", "r", "m">>,
            <<"c", "o", "n", "t", "r", "a", "c", "t", " ", "v", "i", "o", "l", "a", "t", "i", "o", "n">>,
            <<"a", "g", "r", "e", "e", "m", "e", "n", "t", " ", "t", "e", "r", "m", "s">> >>],
      [name |-> "administrative_action",
       keywords |-> <<
            <<"a", "g", "e", "n", "c", "y">>,
            <<"d", "e", "p", "a", "r", "t", "m", "e", "n", "t">>,
            <<"a", "d", "m", "i", "n", "i", "s", "t", "r", "a", "t", "i", "v", "e">>,
            <<"r", "e", "g", "u", "l", "a", "t", "i", "o", "n">>,
            <<"c", "o", "m", "p", "l", "i", "a", "n", "c", "e">>,
            <<"e", "n", "f", "o", "r", "c", "e", "m", "e", "n", "t">>,
            <<"i", "n", "v", "e", "s", "t", "i", "g", "a", "t", "i", "o", "n">>,
            <<"a", "u", "d", "i", "t">>,
            <<"i", "n", "s", "p", "e", "c", "t", "i", "o", "n">>,
            <<"p", "e", "r", "m", "i", "t">> >>,
       phrases |-> <<
            <<"a", "d", "m", "i", "n", "i", "s", "t", "r", "a", "t", "i", "v", "e", " ", "a", "c", "t", "i", "o", "n">>,
            <<"r", "e", "g", "u", "l", "a", "t", "o", "r", "y", " ", "c", "o", "m", "p", "l", "i", "a", "n", "c", "e">>,
            <<"a", "g", "e", "n", "c", "y", " ", "i", "n", "v", "e", "s", "t", "i", "g", "a", "t", "i", "o", "n">>,
            <<"p", "e", "r", "m", "i", "t", " ", "a", "p", "p", "l", "i", "c", "a", "t", "i", "o", "n">>,
            <<"i", "n", "s", "p", "e", "c", "t", "i", "o", "n", " ", "n", "o", "t", "i", "c", "e">>,
            <<"c", "o", "m", "p", "l", "i", "a", "n", "c", "e", " ", "o", "r", "d", "e", "r">> >>],
      [name |-> "property_dispute",
       keywords |-> <<
            <<"p", "r", "o", "p", "e", "r", "t", "y">>,
            <<"r", "e", "a", "l", " ", "e", "s", "t", "a", "t", "e">>,
            <<"l", "a", "n", "d">>,
            <<"t", "i", "t", "l", "e">>,
            <<"d", "e", "e", "d">>,
            <<"o", "w", "n", "e", "r", "s", "h", "i", "p">>,
            <<"b", "o", "u", "n", "d", "a", "r", "y">>,
            <<"e", "a", "s", "e", "m", "e", "n", "t">>,
            <<"l", "i", "e", "n">>,
            <<"m", "o", "r", "t", "g", "a", "g", "e">>,
            <<"f", "o", "r", "e", "c", "l", "o", "s", "u", "r", "e">> >>,
       phrases |-> <<
            <<"p", "r", "o", "p", "e", "r", "t", "y", " ", "d", "i", "s", "p", "u", "t", "e">>,
            <<"t", "i", "t", "l", "e", " ", "i", "s", "s", "u", "e">>,
            <<"b", "o", "u", "n", "d", "a", "r", "y", " ", "d", "i", "s", "p", "u", "t", "e">>,
            <<"p", "r", "o", "p", "e", "r", "t", "y", " ", "r", "i", "g", "h", "t", "s">>,
            <<"r", "e", "a", "l", " ", "e", "s", "t", "a", "t", "e", " ", "m", "a", "t", "t", "e", "r">>,
            <<"l", "a", "n", "d", " ", "o", "w", "n", "e", "r", "s", "h", "i", "p">>,
            <<"p", "r", "o", "p", "e", "r", "t", "y", " ", "c", "l", "a", "i", "m">> >>]
    >>

\* "keyword in text" (lines 222, 227): pat is a substring of t
Contains(t, pat) ==
    \E i \in 1..(Len(t) - Len(pat) + 1) :
        /\ t[i] = pat[1]
        /\ SubSeq(t, i, i + Len(pat) - 1) = pat

\* The places of t where pat starts
Occurrences(t, pat) ==
    Cardinality({i \in 1..(Len(t) - Len(pat) + 1) :
                    SubSeq(t, i, i + Len(pat) - 1) = pat})

RECURSIVE SumOccurrences(_, _, _)
SumOccurrences(pats, t, weight) ==
    IF pats = <<>> THEN 0
    ELSE weight * Occurrences(t, Head(pats)) + SumOccurrences(Tail(pats), t, weight)

\* lines 221-228: the loop "if pattern in text: score += weight"
RECURSIVE SumPresent(_, _, _)
SumPresent(pats, t, weight) ==
    IF pats = <<>> THEN 0
    ELSE (IF Contains(t, Head(pats)) THEN weight ELSE 0)
         + SumPresent(Tail(pats), t, weight)

TypeScorePerOccurrence(patterns, t) ==
    SumOccurrences(patterns.keywords, t, 1) + SumOccurrences(patterns.phrases, t, 3)

\* lines 218-230: the score of one situation type
TypeScore(patterns, t) ==
    SumPresent(patterns.keywords, t, 1) + SumPresent(patterns.phrases, t, 3)

\* lines 215-230: scores.items(), in the order of the table
Scores(t) ==
    [i \in 1..Len(situation_patterns) |->
        [name |-> situation_patterns[i].name,
         score |-> TypeScore(situation_patterns[i], t)]]

\* A maximum that keeps the last of the items no other item exceeds
RECURSIVE MaxFromLast(_, _, _)
MaxFromLast(items, k, best) ==
    IF k > Len(items) THEN best
    ELSE MaxFromLast(items, k + 1,
                     IF items[k].score >= best.score THEN items[k] ELSE best)

MaxByScoreLast(items) == MaxFromLast(items, 2, items[1])

\* max(scores.items(), key=lambda x: x[1]) (line 234): the first item, in
\* iteration order, that no other item exceeds
RECURSIVE MaxFrom(_, _, _)
MaxFrom(items, k, best) ==
    IF k > Len(items) THEN best
    ELSE MaxFrom(items, k + 1,
                 IF items[k].score > best.score THEN items[k] ELSE best)

MaxByScore(items) == MaxFrom(items, 2, items[1])

\* _identify_situation_type lines 213-238
_identify_situation_type(t) ==
    LET items == Scores(t)
    IN  IF items # <<>> /\ MaxByScore(items).score > 0
        THEN MaxByScore(items).name
        ELSE "general"

interpret_situation_stamped_input(input_text, ctx, now) ==
    LET normalized_text == _normalize_text(input_text)
    IN  [type |-> _identify_situation_type(normalized_text),
         raw_input |-> <<input_text, now>>,
         normalized_text |-> normalized_text,
         timestamp |-> now,
         context |-> IF ctx = None THEN "{}" ELSE ctx]

\* interpret_situation lines 138-187: the fields type, raw_input,
\* normalized_text, timestamp and context of the result; now is the reading
\* of datetime.now() at line 180.
interpret_situation(input_text, ctx, now) ==
    LET normalized_text == _normalize_text(input_text)
    IN  [type |-> _identify_situation_type(normalized_text),
         raw_input |-> input_text,
         normalized_text |-> normalized_text,
         timestamp |-> now,
         context |-> IF ctx = None THEN "{}" ELSE ctx]

\* A call interpret_situation(text, context).
InterpretSituation ==
    /\ apc = "off"
    /\ Len(results) < MaxInterpretCalls
    /\ \E now \in Now :
          /\ clock' = now
          /\ results' = Append(results, interpret_situation(text, context, now))
    /\ scores' = Scores(_normalize_text(text))
    /\ UNCHANGED <<text, context, avars>>
    /\ UNCHANGED <<entries, masterLog, sessionDoc, lock, nextId, pc, loc,
                   tampered, ioLeft, opsDone, lastCall, callsLeft, inputs, ret>>

----------------------------------------------------------------------------
(* The analysis pipeline: VeroBrixSystem *)

\* The thread that constructs the system and runs analyze_situation
PipelineThread == "t1"

\* The module-level logger of provenance_logger.py (lines 383-400) before
\* its first use, with no thread calling log_provenance
NoLogger == 0
GlobalLoggerOff ==
    /\ globalLogger = NoLogger
    /\ loggersCreated = 0
    /\ provenance = <<>>
    /\ gpc = [t \in AllThreads |-> "off"]
    /\ localLogger = [t \in AllThreads |-> NoLogger]

\* The class attributes of ConfigManager (config_manager.py lines 28-29)
\* before an instance is constructed: "_config = {}" and
\* "_config_file_path = None"
NoPath == "None"
ConfigOff ==
    /\ _config = <<>>
    /\ _config_file_path = NoPath

PipelineOff ==
    /\ apc = "off"
    /\ fridayLog = <<>>
    /\ stageMarks = <<>>
    /\ GlobalLoggerOff
    /\ ConfigOff

\* friday_agent.log_provenance lines 200-218: the message is printed and
\* appended to logs/friday_agent.log (its time prefix is left out).  It does
\* not reach the ProvenanceLogger.
log_provenance(log, agent_name, action) == Append(log, <<agent_name, action>>)

\* An analytical stage runs: its name and the length of the ledger then.
Mark(stage) == [stage |-> stage, ledger |-> Len(entries)]

\* A str and a dict handed to log_action as input_data / output_data
StrValue(t) == [kind |-> "str", text |-> t, truthy |-> t # <<>>, raises |-> FALSE]
DictValue(items) == [kind |-> "dict", text |-> items, truthy |-> TRUE, raises |-> FALSE]

\* lines 38-42
SystemInitArgs ==
    [NoArgs EXCEPT !.action_type = "system_init",
                   !.action_description = "VeroBrix Sovereign Intelligence System initialized",
                   !.agent_name = "VeroBrixSystem"]

\* lines 87-92; the input texts are shorter than 200 characters
SovereigntyAnalysisArgs(input_text) ==
    [NoArgs EXCEPT !.action_type = "sovereignty_analysis",
                   !.action_description = "Analyzing sovereignty alignment of input text",
                   !.agent_name = "SovereigntyScorer",
                   !.input_data = StrValue(input_text)]

\* lines 119-128.  The scores of score_text and score_decision and the
\* jurisdiction are not computed here: the dicts carry their keys, and the
\* entry the name of the value handed over.
AnalysisCompleteArgs(input_text, situation) ==
    [NoArgs EXCEPT !.action_type = "analysis_complete",
                   !.action_description = "Comprehensive VeroBrix analysis completed",
                   !.agent_name = "VeroBrixSystem",
                   !.input_data = DictValue(<<"situation_type", situation.type,
                                              "text_length", Len(input_text)>>),
                   !.output_data = DictValue(<<"remedy_score", "sovereignty_score">>),
                   !.sovereignty_score = "sovereignty_metrics.overall_score",
                   !.confidence_level = "0.9",
                   !.legal_context = "situation.jurisdiction.primary"]

\* self.provenance_logger.log_action(...): the pipeline's thread enters
\* log_action; the pipeline goes on when the call has returned.
PipelineLogAction(args) ==
    /\ loc' = [loc EXCEPT ![PipelineThread] =
                  [LocInit EXCEPT !.ctx = "direct", !.args = args]]
    /\ pc' = [pc EXCEPT ![PipelineThread] = "la_lock"]
    /\ UNCHANGED <<entries, masterLog, sessionDoc, lock, clock, nextId,
                   tampered, ioLeft, opsDone, lastCall, callsLeft, inputs, ret>>

PipelineAt(position) == apc = position /\ pc[PipelineThread] = "idle"

\* __init__ lines 25-42: the system_init entry
SystemInit ==
    /\ PipelineAt("new")
    /\ PipelineLogAction(SystemInitArgs)
    /\ apc' = "constructed"
    /\ UNCHANGED <<cvars, fridayLog, stageMarks>>
    /\ UNCHANGED <<gvars, kvars>>

\* __init__ line 44
SystemInitDone ==
    /\ PipelineAt("constructed")
    /\ fridayLog' = log_provenance(fridayLog, "VeroBrix System", "Initialized new session")
    /\ apc' = "ready"
    /\ UNCHANGED <<lvars, cvars, stageMarks>>
    /\ UNCHANGED <<gvars, kvars>>

\* analyze_situation line 59
AnalyzeSituation ==
    /\ PipelineAt("ready")
    /\ fridayLog' = log_provenance(fridayLog, "VeroBrix System",
                                   "Starting comprehensive situation analysis")
    /\ apc' = "step1"
    /\ UNCHANGED <<lvars, cvars, stageMarks>>
    /\ UNCHANGED <<gvars, kvars>>

\* lines 62-63: situation classification
Step1Interpret ==
    /\ PipelineAt("step1")
    /\ fridayLog' = log_provenance(fridayLog, "VeroBrix System",
                                   "Step 1: Interpreting situation with SituationInterpreter")
    /\ \E now \in Now :
          /\ clock' = now
          /\ results' = Append(results, interpret_situation(text, context, now))
    /\ scores' = Scores(_normalize_text(text))
    /\ stageMarks' = Append(stageMarks, Mark("classification"))
    /\ apc' = "step2"
    /\ UNCHANGED <<text, context>>
    /\ UNCHANGED <<entries, masterLog, sessionDoc, lock, nextId, pc, loc,
                   tampered, ioLeft, opsDone, lastCall, callsLeft, inputs, ret>>
    /\ UNCHANGED <<gvars, kvars>>

\* lines 66-67: clause segmentation (extract_clauses)
Step2ExtractClauses ==
    /\ PipelineAt("step2")
    /\ fridayLog' = log_provenance(fridayLog, "VeroBrix System",
                                   "Step 2: Extracting clauses with JARVIS")
    /\ stageMarks' = Append(stageMarks, Mark("segmentation_and_contradictions"))
    /\ apc' = "step3"
    /\ UNCHANGED <<lvars, cvars>>
    /\ UNCHANGED <<gvars, kvars>>

\* lines 70-71: contradiction detection (detect_contradictions)
Step3DetectContradictions ==
    /\ PipelineAt("step3")
    /\ fridayLog' = log_provenance(fridayLog, "VeroBrix System",
                                   "Step 3: Detecting contradictions with JARVIS")
    /\ apc' = "step4"
    /\ UNCHANGED <<lvars, cvars, stageMarks>>
    /\ UNCHANGED <<gvars, kvars>>

\* lines 74-84: legal structure, tone and risks, legal summary
Steps4To6 ==
    /\ PipelineAt("step4")
    /\ fridayLog' =
          log_provenance(
              log_provenance(
                  log_provenance(fridayLog, "VeroBrix System",
                                 "Step 4: Analyzing legal structure with JARVIS"),
                  "VeroBrix System", "Step 5: Analyzing tone and risks with FRIDAY"),
              "VeroBrix System", "Step 6: Generating legal summary with FRIDAY")
    /\ apc' = "step7"
    /\ UNCHANGED <<lvars, cvars, stageMarks>>
    /\ UNCHANGED <<gvars, kvars>>

\* lines 87-92: the sovereignty_analysis entry, logged before the scoring
Step7LogSovereigntyAnalysis ==
    /\ PipelineAt("step7")
    /\ PipelineLogAction(SovereigntyAnalysisArgs(text))
    /\ apc' = "step7_score"
    /\ UNCHANGED <<cvars, fridayLog, stageMarks>>
    /\ UNCHANGED <<gvars, kvars>>

\* line 94: alignment scoring (score_text)
Step7ScoreText ==
    /\ PipelineAt("step7_score")
    /\ stageMarks' = Append(stageMarks, Mark("alignment_scoring"))
    /\ apc' = "step8"
    /\ UNCHANGED <<lvars, cvars, fridayLog>>
    /\ UNCHANGED <<gvars, kvars>>

\* lines 97-116: the remedy and its score
Step8SynthesizeRemedy ==
    /\ PipelineAt("step8")
    /\ fridayLog' = log_provenance(fridayLog, "VeroBrix System",
                                   "Step 8: Synthesizing remedy")
    /\ apc' = "complete"
    /\ UNCHANGED <<lvars, cvars, stageMarks>>
    /\ UNCHANGED <<gvars, kvars>>

\* lines 119-128: the analysis_complete entry
LogAnalysisComplete ==
    /\ PipelineAt("complete")
    /\ PipelineLogAction(AnalysisCompleteArgs(text, results[Len(results)]))
    /\ apc' = "save"
    /\ UNCHANGED <<cvars, fridayLog, stageMarks>>
    /\ UNCHANGED <<gvars, kvars>>

\* lines 131-176: the results are compiled and saved, and returned
AnalysisDone ==
    /\ PipelineAt("save")
    /\ fridayLog' = log_provenance(fridayLog, "VeroBrix System",
                                   "Comprehensive analysis completed")
    /\ apc' = "done"
    /\ UNCHANGED <<lvars, cvars, stageMarks>>
    /\ UNCHANGED <<gvars, kvars>>

----------------------------------------------------------------------------
(* Specifications *)

\* Threads sharing one ledger on a filesystem that does not fail.
Init ==
    /\ LedgerInit(AllThreads, MaxCalls, 0, {StrX}, 0)
    /\ ClassifierOff
    /\ PipelineOff
Next ==
    \E t \in AllThreads :
        \/ CallLogAction(t)
        \/ LaCreate(t)
        \/ LaStore(t)
        \/ LaMaster(t)
        \/ LaSessionRead(t)
        \/ LaSessionWrite(t)
        \/ CallTrackOperation(t)
        \/ OpBody(t)
        \/ CallCloseSession(t)
        \/ CsSummary(t)
        \/ CsVerify(t)
        \/ CsRead(t)
        \/ CsWrite(t)
Spec == Init /\ [][Next]_vars

\* The ledger on a filesystem that fails.
InitFaults ==
    /\ LedgerInit(AllThreads, MaxCalls, MaxIOFailures, {StrX, DictBad}, MaxClock)
    /\ ClassifierOff
    /\ PipelineOff
NextFaults ==
    \E t \in AllThreads :
        \/ CallLogAction(t)
        \/ LaCreate(t)
        \/ LaStore(t)
        \/ LaMaster(t)
        \/ LaSessionRead(t)
        \/ LaSessionWrite(t)
        \/ CallTrackOperation(t)
        \/ OpBody(t)
        \/ CallCloseSession(t)
        \/ CsSummary(t)
        \/ CsVerify(t)
        \/ CsRead(t)
        \/ CsWrite(t)
SpecFaults == InitFaults /\ [][NextFaults]_vars

\* The ledger with its queries, and with entries mutated from outside.
InitTamper ==
    /\ LedgerInit({"t1"}, MaxCalls, 0, {StrX, DictBad}, MaxClock)
    /\ ClassifierOff
    /\ PipelineOff
NextTamper ==
    \/ \E t \in AllThreads :
        \/ CallLogAction(t)
        \/ LaCreate(t)
        \/ LaStore(t)
        \/ LaMaster(t)
        \/ LaSessionRead(t)
        \/ LaSessionWrite(t)
        \/ CallTrackOperation(t)
        \/ OpBody(t)
        \/ CallCloseSession(t)
        \/ CsSummary(t)
        \/ CsVerify(t)
        \/ CsRead(t)
        \/ CsWrite(t)
        \/ GetEntry(t)
        \/ GetEntriesByAgent(t)
        \/ GetEntriesByType(t)
        \/ GetSessionSummary(t)
        \/ VerifyIntegrity(t)
        \/ ExportSession(t)
    \/ Tamper
SpecTamper == InitTamper /\ [][NextTamper]_vars

\* The classifier called on one input, up to MaxInterpretCalls times.
InitClassify ==
    /\ LedgerInit({}, 0, 0, {}, 0)
    /\ text \in InputTexts
    /\ context \in Contexts
    /\ results = <<>>
    /\ scores = NoScores
    /\ PipelineOff
NextClassify == InterpretSituation
SpecClassify == InitClassify /\ [][NextClassify]_vars

\* One thread constructs the system and runs analyze_situation on one input,
\* on a filesystem that does not fail.
InitAnalysis ==
    /\ LedgerInit({PipelineThread}, 0, 0, {}, 0)
    /\ text \in InputTexts
    /\ context \in Contexts
    /\ results = <<>>
    /\ scores = NoScores
    /\ apc = "new"
    /\ fridayLog = <<>>
    /\ stageMarks = <<>>
    /\ GlobalLoggerOff
    /\ ConfigOff
NextAnalysis ==
    \/ SystemInit
    \/ SystemInitDone
    \/ AnalyzeSituation
    \/ Step1Interpret
    \/ Step2ExtractClauses
    \/ Step3DetectContradictions
    \/ Steps4To6
    \/ Step7LogSovereigntyAnalysis
    \/ Step7ScoreText
    \/ Step8SynthesizeRemedy
    \/ LogAnalysisComplete
    \/ AnalysisDone
    \/ \E t \in AllThreads :
        \/ LaCreate(t)
        \/ LaStore(t)
        \/ LaMaster(t)
        \/ LaSessionRead(t)
        \/ LaSessionWrite(t)
SpecAnalysis == InitAnalysis /\ [][NextAnalysis]_vars

----------------------------------------------------------------------------
(* Properties of the ledger *)

IsPrefix(s, t) == Len(s) <= Len(t) /\ SubSeq(t, 1, Len(s)) = s

Quiescent == \A t \in AllThreads : pc[t] \in {"idle", "off"}

HasType(ty) == \E i \in 1..Len(entries) : entries[i].action_type = ty

CorruptedIds(r) ==
    {r.corrupted_entries[i].entry_id : i \in 1..Len(r.corrupted_entries)}

\* C1: as long as no entry has been mutated from outside, every entry of the
\* ledger, whichever call logged it (log_action, track_operation,
\* close_session), carries a non-empty entry_hash equal to the hash recomputed
\* over its other fields, and verify_integrity reports 100 percent, no
\* corrupted entry and no missing hash.
C1_LedgerRoundTrip ==
    tampered = {} =>
        LET r == verify_integrity(entries) IN
        /\ \A i \in 1..Len(entries) :
              /\ entries[i].entry_hash # NoHash
              /\ entries[i].entry_hash = _generate_entry_hash(entries[i])
        /\ PctIs100(r.integrity_percentage)
        /\ r.verified_entries = r.total_entries
        /\ r.corrupted_entries = <<>>
        /\ r.missing_hashes = <<>>

C1_Witness ==
    /\ tampered = {}
    /\ Len(entries) = 2
    /\ HasType("operation_start") /\ HasType("operation_complete")
    /\ ret.op = "verify_integrity"
    /\ ret.value.total_entries = 2
    /\ PctIs100(ret.value.integrity_percentage)

\* C2: verify_integrity lists exactly the entries whose action_description
\* was changed from outside as corrupted, counts all the others as verified,
\* and reports less than 100 percent as soon as one entry was changed.
C2_TamperDetection ==
    LET r == verify_integrity(entries) IN
    /\ CorruptedIds(r) = tampered
    /\ Len(r.corrupted_entries) = Cardinality(tampered)
    /\ r.verified_entries = Len(entries) - Cardinality(tampered)
    /\ r.missing_hashes = <<>>
    /\ tampered # {} => PctBelow100(r.integrity_percentage)

C2_Witness ==
    /\ Len(entries) = 3
    /\ Cardinality(tampered) = 1
    /\ ret.op = "verify_integrity"
    /\ Len(ret.value.corrupted_entries) = 1
    /\ ret.value.verified_entries = 2
    /\ PctBelow100(ret.value.integrity_percentage)

OutcomeEntries(sid) ==
    LET IsOutcome(e) ==
            /\ e.parent_entry_id = sid
            /\ e.action_type \in {"operation_complete", "operation_error"}
    IN  SelectSeq(entries, IsOutcome)

\* C3: every use of track_operation that has exited left exactly one outcome
\* entry (operation_complete or operation_error) for its start entry in the
\* ledger.
C3_OutcomeRecordedOnce ==
    \A sid \in opsDone : Len(OutcomeEntries(sid)) = 1

StrictlyIncreasingIds(es) ==
    \A i, j \in 1..Len(es) : i < j => es[i].entry_id < es[j].entry_id

NonDecreasingTimestamps(es) ==
    \A i, j \in 1..Len(es) : i < j => es[i].timestamp <= es[j].timestamp

InStore == {t \in AllThreads : pc[t] = "la_store"}

NoCloseCalled ==
    /\ ~HasType("session_close")
    /\ \A t \in AllThreads : loc[t].ctx # "close"

\* C4: with threads logging concurrently on a filesystem that does not fail,
\* entries are stored in the order they were created (ids ascending, none
\* twice), every created entry is stored unless its call is about to store
\* it, the master log and the session document list the entries in the
\* in-memory order (each a prefix of the next while a call is in its critical
\* section, all three equal when no call is running), and timestamps do not
\* decrease along the ledger.  The session document is compared as long as
\* no close_session call was made.
C4_SerializedAppend ==
    /\ StrictlyIncreasingIds(entries)
    /\ Len(entries) + Cardinality(InStore) = nextId - 1
    /\ Cardinality(InStore) <= 1
    /\ NonDecreasingTimestamps(entries)
    /\ IsPrefix(masterLog, entries)
    /\ Quiescent => masterLog = entries
    /\ NoCloseCalled =>
          /\ IsPrefix(sessionDoc.entries, masterLog)
          /\ Quiescent => sessionDoc.entries = entries

C4_Witness ==
    /\ NoCloseCalled
    /\ Len(entries) = 2
    /\ entries[1].timestamp < entries[2].timestamp
    /\ pc["t1"] = "la_master"
    /\ pc["t2"] = "la_lock"
    /\ sessionDoc.entries = <<entries[1]>>

LeavesStore(t) == pc[t] = "la_store" /\ pc'[t] # "la_store"

\* C5: a step of log_action that stores an entry appends exactly that one
\* entry at the end of the ledger, and every other step of the ledger's own
\* operations (the other steps of log_action, the queries, close_session's
\* finalisation) leaves the ledger as it is.
C5_AppendOnly ==
    [][ /\ \A t \in AllThreads :
              LeavesStore(t) =>
                  /\ entries' = Append(entries, loc[t].entry)
                  /\ \A i \in 1..Len(entries) : entries[i].entry_id # loc[t].entry.entry_id
        /\ (tampered' = tampered /\ \A t \in AllThreads : ~LeavesStore(t))
              => entries' = entries
      ]_vars

C5_Witness ==
    /\ Len(entries) = 3
    /\ tampered = {}
    /\ sessionDoc.status = "closed"
    /\ ret.op = "export_session"
    /\ ret.value.entries = entries

\* C6: a log_action call in which persisting the entry failed returns the
\* entry id; it does not raise.
C6_PersistFailureOnlyLogged ==
    lastCall.persist_failed => lastCall.outcome = "returned"

\* C7: on a filesystem that does not fail, the session document's entries
\* and the master log lines of the session equal the in-memory ledger when no
\* call is running, and no step removes, reorders or changes a persisted
\* record.
C7_PersistedMirrorsLedger ==
    /\ [](Quiescent => sessionDoc.entries = entries /\ masterLog = entries)
    /\ [][ /\ IsPrefix(sessionDoc.entries, sessionDoc'.entries)
           /\ IsPrefix(masterLog, masterLog') ]_vars

----------------------------------------------------------------------------
(* Properties of the analysis pipeline and of the classifier *)

\* The ledger entries appended after the k-th analytical stage ran and before
\* the next stage started (before the run ended, for the last stage).
EntriesOfStage(k) ==
    LET upto == IF k < Len(stageMarks) THEN stageMarks[k + 1].ledger
                                        ELSE Len(entries)
    IN  {i \in (stageMarks[k].ledger + 1)..upto : TRUE}

StageIsOver(k) == k < Len(stageMarks) \/ apc = "done"

\* C8: during an analyze_situation run, every analytical stage that is over
\* (classification, segmentation and contradiction detection, alignment
\* scoring) has an entry in the ledger that was appended before the next stage
\* started and records both an input hash and an output hash.
C8_StageEntries ==
    \A k \in 1..Len(stageMarks) :
        StageIsOver(k) =>
            \E i \in EntriesOfStage(k) :
                /\ entries[i].input_hash # NoHash
                /\ entries[i].output_hash # NoHash

WithoutTimestamp(r) == [r EXCEPT !.timestamp = 0]

Classified == results # <<>>
ScoredText == results[Len(results)].normalized_text
ResultType == results[Len(results)].type

ScoreOf(name) ==
    LET i == CHOOSE k \in 1..Len(scores) : scores[k].name = name
    IN  scores[i].score

TypeNames == {situation_patterns[i].name : i \in 1..Len(situation_patterns)}

PatternsOf(name) ==
    situation_patterns[CHOOSE k \in 1..Len(situation_patterns) :
                           situation_patterns[k].name = name]

SeqRange(s) == {s[i] : i \in 1..Len(s)}

\* 1 for every keyword and 3 for every phrase of the type that is a substring
\* of the text, however often it occurs
PresenceScore(name, t) ==
    Cardinality({k \in SeqRange(PatternsOf(name).keywords) : Contains(t, k)})
    + 3 * Cardinality({ph \in SeqRange(PatternsOf(name).phrases) : Contains(t, ph)})

\* 1 for every occurrence of a keyword and 3 for every occurrence of a phrase
OccurrenceScore(name, t) == TypeScorePerOccurrence(PatternsOf(name), t)

\* C10 as stated: every type's score counts the occurrences of its keywords
\* (1 each) and of its phrases (3 each), and the result is a type with the
\* highest such score, or 'general' when all are zero.
C10_ScorePerOccurrence ==
    Classified =>
        /\ \A n \in TypeNames : ScoreOf(n) = OccurrenceScore(n, ScoredText)
        /\ IF \A n \in TypeNames : OccurrenceScore(n, ScoredText) = 0
           THEN ResultType = "general"
           ELSE /\ ResultType \in TypeNames
                /\ \A n \in TypeNames :
                      OccurrenceScore(n, ScoredText) <= OccurrenceScore(ResultType, ScoredText)

\* C10, amended: every type's score is 1 for each of its keywords and 3 for
\* each of its phrases that occurs in the text at least once, as a substring;
\* the result is a type with the highest score when that score is above zero,
\* and 'general' when every type scores zero.
C10_ScorePerPattern ==
    Classified =>
        LET expected == [n \in TypeNames |-> PresenceScore(n, ScoredText)] IN
        /\ \A n \in TypeNames : ScoreOf(n) = expected[n]
        /\ IF \A n \in TypeNames : expected[n] = 0
           THEN ResultType = "general"
           ELSE /\ ResultType \in TypeNames
                /\ expected[ResultType] > 0
                /\ \A n \in TypeNames : expected[n] <= expected[ResultType]

C10_Witness ==
    /\ Classified
    /\ ScoredText = <<"t", "a", "x", " ", "t", "a", "x", " ", "s", "t", "o", "p">>
    /\ ScoreOf("fee_demand") = 1
    /\ ScoreOf("traffic_stop") = 1
    /\ ResultType = "traffic_stop"

----------------------------------------------------------------------------
(* Functions of a text, called on their own *)

\* The texts made of up to MaxWords of the given fragments, separated by
\* single blanks.
TextsOver(fragments) ==
    {Join(w) : w \in UNION {[1..k -> fragments] : k \in 0..MaxWords}}

\* One input, chosen from the given set, and no call made yet.
PureInit(inputSet) ==
    /\ LedgerInit({}, 0, 0, {}, 0)
    /\ text \in inputSet
    /\ context = None
    /\ results = <<>>
    /\ scores = NoScores
    /\ PipelineOff

\* The call of the function op returns value.
Returns(op, value) ==
    /\ apc = "off"
    /\ ret = NoRet
    /\ ret' = [op |-> op, value |-> value]
    /\ UNCHANGED <<entries, masterLog, sessionDoc, lock, clock, nextId, pc, loc,
                   tampered, ioLeft, opsDone, lastCall, callsLeft, inputs>>
    /\ UNCHANGED <<cvars, avars>>

Called(op) == ret.op = op

SeqToSet(s) == {s[i] : i \in 1..Len(s)}

Min(a, b) == IF a <= b THEN a ELSE b

----------------------------------------------------------------------------
(* Jurisdiction inference: SituationInterpreter._determine_jurisdiction *)

\* _load_jurisdiction_indicators: the table, in the order of the dict
jurisdiction_indicators ==
    <<
      [name |-> "federal",
       indicators |-> <<
            <<"f", "e", "d", "e", "r", "a", "l">>,
            <<"u", "n", "i", "t", "e", "d", " ", "s", "t", "a", "t", "e", "s">>,
            <<"u", ".", "s", ".">>,
            <<"i", "r", "s">>,
            <<"f", "b", "i">>,
            <<"d", "e", "a">>,
            <<"a", "t", "f">>,
            <<"c", "u", "s", "t", "o", "m", "s">>,
            <<"i", "m", "m", "i", "g", "r", "a", "t", "i", "o", "n">>,
            <<"s", "o", "c", "i", "a", "l", " ", "s", "e", "c", "u", "r", "i", "t", "y">>,
            <<"m", "e", "d", "i", "c", "a", "r", "e">> >>],
      [name |-> "state",
       indicators |-> <<
            <<"s", "t", "a", "t", "e">>,
            <<"c", "o", "m", "m", "o", "n", "w", "e", "a", "l", "t", "h">>,
            <<"d", "m", "v">>,
            <<"d", "e", "p", "a", "r", "t", "m", "e", "n", "t", " ", "o", "f">>,
            <<"s", "t", "a", "t", "e", " ", "p", "o", "l", "i", "c", "e">>,
            <<"s", "t", "a", "t", "e", " ", "c", "o", "u", "r", "t">>,
            <<"s", "t", "a", "t", "e", " ", "a", "g", "e", "n", "c", "y">>,
            <<"g", "o", "v", "e", "r", "n", "o", "r">>,
            <<"l", "e", "g", "i", "s", "l", "a", "t", "u", "r", "e">> >>],
      [name |-> "local",
       indicators |-> <<
            <<"c", "i", "t", "y">>,
            <<"c", "o", "u", "n", "t", "y">>,
            <<"m", "u", "n", "i", "c", "i", "p", "a", "l">>,
            <<"t", "o", "w", "n">>,
            <<"v", "i", "l", "l", "a", "g", "e">>,
            <<"p", "a", "r", "i", "s", "h">>,
            <<"l", "o", "c", "a", "l">>,
            <<"m", "a", "y", "o", "r">>,
            <<"c", "o", "u", "n", "c", "i", "l">>,
            <<"c", "o", "m", "m", "i", "s", "s", "i", "o", "n", "e", "r">> >>],
      [name |-> "commercial",
       indicators |-> <<
            <<"c", "o", "m", "m", "e", "r", "c", "i", "a", "l">>,
            <<"b", "u", "s", "i", "n", "e", "s", "s">>,
            <<"t", "r", "a", "d", "e">>,
            <<"c", "o", "m", "m", "e", "r", "c", "e">>,
            <<"u", "c", "c">>,
            <<"c", "o", "n", "t", "r", "a", "c", "t">>,
            <<"a", "g", "r", "e", "e", "m", "e", "n", "t">>,
            <<"t", "r", "a", "n", "s", "a", "c", "t", "i", "o", "n">>,
            <<"s", "a", "l", "e">>,
            <<"p", "u", "r", "c", "h", "a", "s", "e">> >>]
    >>

\* lines 316-320: the entries "<type>: <indicator>" appended to
\* jurisdiction['indicators'] for one type, in the order of its list
RECURSIVE IndicatorsFound(_, _, _)
IndicatorsFound(name, indicators, t) ==
    IF indicators = <<>> THEN <<>>
    ELSE (IF Contains(t, Head(indicators)) THEN << <<name, Head(indicators)>> >> ELSE <<>>)
         \o IndicatorsFound(name, Tail(indicators), t)

\* lines 314-320: scores.items(), in the order of the dict
JurisdictionScores(t) ==
    [i \in 1..Len(jurisdiction_indicators) |->
        [name |-> jurisdiction_indicators[i].name,
         score |-> Len(IndicatorsFound(jurisdiction_indicators[i].name,
                                       jurisdiction_indicators[i].indicators, t))]]

RECURSIVE AllIndicatorsFrom(_, _)
AllIndicatorsFrom(k, t) ==
    IF k > Len(jurisdiction_indicators) THEN <<>>
    ELSE IndicatorsFound(jurisdiction_indicators[k].name,
                         jurisdiction_indicators[k].indicators, t)
         \o AllIndicatorsFrom(k + 1, t)

\* A confidence is kept as the exact fraction num/den.
ConfidenceUnclamped(score) == [num |-> score, den |-> 5]

\* line 327: min(primary[1] / 5.0, 1.0)
Confidence(score) == [num |-> Min(score, 5), den |-> 5]

\* lines 330-332: the types other than primary with a score above zero
RECURSIVE SecondaryFrom(_, _, _)
SecondaryFrom(items, k, primary) ==
    IF k > Len(items) THEN <<>>
    ELSE (IF items[k].name # primary /\ items[k].score > 0
          THEN <<items[k].name>> ELSE <<>>)
         \o SecondaryFrom(items, k + 1, primary)

\* _determine_jurisdiction lines 305-334 (the entities argument is not read)
_determine_jurisdiction(t) ==
    LET items == JurisdictionScores(t)
        best == MaxByScore(items)
        found == best.score > 0
        primary == IF found THEN best.name ELSE "unknown"
    IN  [primary |-> primary,
         secondary |-> SecondaryFrom(items, 1, primary),
         indicators |-> AllIndicatorsFrom(1, t),
         confidence |-> IF found THEN Confidence(best.score)
                                 ELSE [num |-> 0, den |-> 1]]

\* Fragments of input texts that hold indicators of the table
JurisdictionFragments ==
    { <<"f", "e", "d", "e", "r", "a", "l", " ", "I", "R", "S">>,
      <<"f", "b", "i", " ", "d", "e", "a", " ", "a", "t", "f">>,
      <<"c", "u", "s", "t", "o", "m", "s">>,
      <<"u", "n", "i", "t", "e", "d", " ", "s", "t", "a", "t", "e", "s">>,
      <<"c", "i", "t", "y", " ", "c", "o", "u", "n", "c", "i", "l">>,
      <<"s", "a", "l", "e">>,
      <<"z", "e", "b", "r", "a">> }

\* A call _determine_jurisdiction(_normalize_text(text), entities), as made
\* by interpret_situation (lines 150, 159).
DetermineJurisdiction ==
    Returns("_determine_jurisdiction", _determine_jurisdiction(_normalize_text(text)))

InitJurisdiction == PureInit(TextsOver(JurisdictionFragments))
NextJurisdiction == DetermineJurisdiction
SpecJurisdiction == InitJurisdiction /\ [][NextJurisdiction]_vars

JurisdictionNames ==
    {jurisdiction_indicators[i].name : i \in 1..Len(jurisdiction_indicators)}

\* The number of the bucket's indicators that occur in the text
BucketScore(name, t) ==
    LET row == jurisdiction_indicators[CHOOSE k \in 1..Len(jurisdiction_indicators) :
                                           jurisdiction_indicators[k].name = name]
    IN  Cardinality({x \in SeqToSet(row.indicators) : Contains(t, x)})

\* C11: primary is a bucket with the highest score when that score is above
\* zero and 'unknown' otherwise; confidence is min(primary score / 5, 1) and
\* lies in [0, 1]; secondary lists, each once, exactly the other buckets with
\* a score above zero; with primary 'unknown', secondary is empty and
\* confidence is 0.
C11_Jurisdiction ==
    Called("_determine_jurisdiction") =>
        LET t == _normalize_text(text)
            j == ret.value
            expected == [n \in JurisdictionNames |-> BucketScore(n, t)]
        IN  /\ IF \A n \in JurisdictionNames : expected[n] = 0
               THEN /\ j.primary = "unknown"
                    /\ j.secondary = <<>>
                    /\ j.confidence.num = 0
               ELSE /\ j.primary \in JurisdictionNames
                    /\ expected[j.primary] > 0
                    /\ \A n \in JurisdictionNames : expected[n] <= expected[j.primary]
                    /\ j.confidence.num * 5 = Min(expected[j.primary], 5) * j.confidence.den
            /\ 0 <= j.confidence.num /\ j.confidence.num <= j.confidence.den
            /\ SeqToSet(j.secondary) =
                  {n \in JurisdictionNames : n # j.primary /\ expected[n] > 0}
            /\ Len(j.secondary) = Cardinality(SeqToSet(j.secondary))

C11_Witness ==
    /\ Called("_determine_jurisdiction")
    /\ ret.value.primary = "federal"
    /\ Len(ret.value.indicators) >= 7
    /\ ret.value.confidence = [num |-> 5, den |-> 5]
    /\ ret.value.secondary = <<"state">>

----------------------------------------------------------------------------
(* Urgency assessment: SituationInterpreter._assess_urgency *)

\* lines 392-396: the table, in the order of the dict
urgency_indicators ==
    <<
       [level |-> "high",
        indicators |-> <<
            <<"i", "m", "m", "e", "d", "i", "a", "t", "e">>,
            <<"u", "r", "g", "e", "n", "t">>,
            <<"e", "m", "e", "r", "g", "e", "n", "c", "y">>,
            <<"d", "e", "a", "d", "l", "i", "n", "e">>,
            <<"f", "i", "n", "a", "l", " ", "n", "o", "t", "i", "c", "e">>,
            <<"c", "o", "u", "r", "t", " ", "d", "a", "t", "e">> >>],
       [level |-> "medium",
        indicators |-> <<
            <<"s", "o", "o", "n">>,
            <<"w", "i", "t", "h", "i", "n">>,
            <<"b", "y">>,
            <<"b", "e", "f", "o", "r", "e">>,
            <<"d", "u", "e">> >>],
       [level |-> "low",
        indicators |-> <<
            <<"w", "h", "e", "n", " ", "c", "o", "n", "v", "e", "n", "i", "e", "n", "t">>,
            <<"a", "t", " ", "y", "o", "u", "r", " ", "e", "a", "r", "l", "i", "e", "s", "t">>,
            <<"p", "l", "e", "a", "s", "e">> >>]
    >>

UrgencyLevelLowWins(level, current) ==
    IF level = "high" THEN "high"
    ELSE IF level = "low" THEN "low"
    ELSE current

\* lines 407-410: the level after an indicator of the given level was found
UrgencyLevel(level, current) ==
    IF level = "high" THEN "high"
    ELSE IF level = "low" /\ current # "high" THEN "low"
    ELSE current

\* lines 405-410: the inner loop, over the indicators of one level
RECURSIVE UrgencyOfLevel(_, _, _, _)
UrgencyOfLevel(level, indicators, t, urgency) ==
    IF indicators = <<>> THEN urgency
    ELSE UrgencyOfLevel(level, Tail(indicators), t,
            IF Contains(t, Head(indicators))
            THEN [urgency EXCEPT !.indicators = Append(@, Head(indicators)),
                                 !.level = UrgencyLevel(level, @)]
            ELSE urgency)

\* lines 404-410: the outer loop, over the rows of a table
RECURSIVE UrgencyFrom(_, _, _, _)
UrgencyFrom(table, k, t, urgency) ==
    IF k > Len(table) THEN urgency
    ELSE UrgencyFrom(table, k + 1, t,
                     UrgencyOfLevel(table[k].level, table[k].indicators, t, urgency))

\* lines 398-410, for a table of indicators.  The input texts hold no digit,
\* so no timeline pattern (lines 413-422) matches: timeline stays None.
AssessUrgencyWith(table, t) ==
    UrgencyFrom(table, 1, t,
                [level |-> "medium", indicators |-> <<>>, timeline |-> None])

\* _assess_urgency lines 390-425 (the entities argument is not read)
_assess_urgency(t) == AssessUrgencyWith(urgency_indicators, t)

\* Fragments of input texts that hold indicators of the table
UrgencyFragments ==
    { <<"u", "r", "g", "e", "n", "t">>,
      <<"f", "i", "n", "a", "l", " ", "n", "o", "t", "i", "c", "e">>,
      <<"s", "o", "o", "n">>,
      <<"p", "l", "e", "a", "s", "e">>,
      <<"z", "e", "b", "r", "a">>,
      <<"D", "e", "a", "d", "l", "i", "n", "e">> }

\* A call _assess_urgency(_normalize_text(text), entities), as made by
\* interpret_situation (lines 150, 168).
AssessUrgency ==
    Returns("_assess_urgency", _assess_urgency(_normalize_text(text)))

InitUrgency == PureInit(TextsOver(UrgencyFragments))
NextUrgency == AssessUrgency
SpecUrgency == InitUrgency /\ [][NextUrgency]_vars

\* Some indicator of the given level occurs in the text
Occurs(level, t) ==
    \E k \in 1..Len(urgency_indicators) :
        /\ urgency_indicators[k].level = level
        /\ \E x \in SeqToSet(urgency_indicators[k].indicators) : Contains(t, x)

\* The table with its rows in another order, and with the indicators of
\* every row reversed
Reordered(p) ==
    [k \in 1..Len(urgency_indicators) |->
        LET row == urgency_indicators[p[k]]
        IN  [level |-> row.level,
             indicators |-> [i \in 1..Len(row.indicators) |->
                                row.indicators[Len(row.indicators) + 1 - i]]]]

\* C12: the level is high exactly when a high indicator occurs in the text,
\* low exactly when a low indicator and no high indicator occurs, and medium
\* otherwise; examining the rows of the table in any other order, each row
\* backwards, gives the same level.
C12_UrgencyLevel ==
    Called("_assess_urgency") =>
        LET t == _normalize_text(text)
            level == ret.value.level
        IN  /\ level \in {"high", "medium", "low"}
            /\ level = "high" <=> Occurs("high", t)
            /\ level = "low" <=> (Occurs("low", t) /\ ~Occurs("high", t))
            /\ level = "medium" <=> (~Occurs("low", t) /\ ~Occurs("high", t))
            /\ \A p \in Permutations(1..Len(urgency_indicators)) :
                  AssessUrgencyWith(Reordered(p), t).level = level

C12_Witness ==
    /\ Called("_assess_urgency")
    /\ ret.value.level = "high"
    /\ ret.value.indicators =
          <<<<"d", "e", "a", "d", "l", "i", "n", "e">>,
            <<"s", "o", "o", "n">>,
            <<"p", "l", "e", "a", "s", "e">>>>

----------------------------------------------------------------------------
(* Contradiction detection: agents/JARVIS/jarvis_agent.py *)

MaxClauses == 3     \* clauses handed to detect_contradictions

\* "any(term in clause for term in terms)"
AnyIn(terms, c) == \E i \in 1..Len(terms) : Contains(c, terms[i])

\* lines 92-97: the table of opposite concepts
opposites ==
    <<
      [positive |-> <<
            <<"r", "e", "q", "u", "i", "r", "e", "d">>,
            <<"m", "a", "n", "d", "a", "t", "o", "r", "y">>,
            <<"s", "h", "a", "l", "l">>,
            <<"m", "u", "s", "t">> >>,
       negative |-> <<
            <<"o", "p", "t", "i", "o", "n", "a", "l">>,
            <<"m", "a", "y">>,
            <<"n", "o", "t", " ", "r", "e", "q", "u", "i", "r", "e", "d">> >>],
      [positive |-> <<
            <<"p", "e", "r", "m", "i", "t", "t", "e", "d">>,
            <<"a", "l", "l", "o", "w", "e", "d">>,
            <<"a", "u", "t", "h", "o", "r", "i", "z", "e", "d">> >>,
       negative |-> <<
            <<"p", "r", "o", "h", "i", "b", "i", "t", "e", "d">>,
            <<"f", "o", "r", "b", "i", "d", "d", "e", "n">>,
            <<"n", "o", "t", " ", "a", "l", "l", "o", "w", "e", "d">> >>],
      [positive |-> <<
            <<"i", "n", "c", "l", "u", "d", "e">>,
            <<"i", "n", "c", "l", "u", "d", "e", "s">> >>,
       negative |-> <<
            <<"e", "x", "c", "l", "u", "d", "e">>,
            <<"e", "x", "c", "l", "u", "d", "e", "s">>,
            <<"d", "o", "e", "s", " ", "n", "o", "t", " ", "i", "n", "c", "l", "u", "d", "e">> >>],
      [positive |-> <<
            <<"b", "e", "f", "o", "r", "e">>,
            <<"p", "r", "i", "o", "r", " ", "t", "o">> >>,
       negative |-> <<
            <<"a", "f", "t", "e", "r">>,
            <<"f", "o", "l", "l", "o", "w", "i", "n", "g">>,
            <<"s", "u", "b", "s", "e", "q", "u", "e", "n", "t", " ", "t", "o">> >>]
    >>

\* lines 99-105 without the second test: clause 1 positive, clause 2 negative
RECURSIVE ContradictsOneWayFrom(_, _, _)
ContradictsOneWayFrom(k, c1, c2) ==
    IF k > Len(opposites) THEN FALSE
    ELSE IF AnyIn(opposites[k].positive, c1) /\ AnyIn(opposites[k].negative, c2)
         THEN TRUE
         ELSE ContradictsOneWayFrom(k + 1, c1, c2)

\* lines 99-107: the loop over the table, returning at the first match
RECURSIVE ContradictsFrom(_, _, _)
ContradictsFrom(k, c1, c2) ==
    IF k > Len(opposites) THEN FALSE
    ELSE IF AnyIn(opposites[k].positive, c1) /\ AnyIn(opposites[k].negative, c2)
         THEN TRUE
         ELSE IF AnyIn(opposites[k].positive, c2) /\ AnyIn(opposites[k].negative, c1)
              THEN TRUE
              ELSE ContradictsFrom(k + 1, c1, c2)

detect_clause_contradiction_one_way(clause1, clause2) ==
    ContradictsOneWayFrom(1, Lower(clause1), Lower(clause2))

\* detect_clause_contradiction lines 82-107
detect_clause_contradiction(clause1, clause2) ==
    ContradictsFrom(1, Lower(clause1), Lower(clause2))

\* lines 42, 51, 60-62: the tests of the three patterns on one clause
NotwithstandingSubjectTo(clause) ==
    /\ Contains(Lower(clause), <<"n", "o", "t", "w", "i", "t", "h", "s", "t", "a", "n", "d", "i", "n", "g">>)
    /\ Contains(Lower(clause), <<"s", "u", "b", "j", "e", "c", "t", " ", "t", "o">>)

ShallMayEither(clause) ==
    \/ Contains(Lower(clause), <<"s", "h", "a", "l", "l">>)
    \/ Contains(Lower(clause), <<"m", "a", "y">>)

ShallMay(clause) ==
    /\ Contains(Lower(clause), <<"s", "h", "a", "l", "l">>)
    /\ Contains(Lower(clause), <<"m", "a", "y">>)

ProhibitionTerms == <<<<"p", "r", "o", "h", "i", "b", "i", "t", "e", "d">>, <<"f", "o", "r", "b", "i", "d", "d", "e", "n">>, <<"n", "o", "t", " ", "p", "e", "r", "m", "i", "t", "t", "e", "d">>>>
PermissionTerms == <<<<"p", "e", "r", "m", "i", "t", "t", "e", "d">>, <<"a", "l", "l", "o", "w", "e", "d">>, <<"a", "u", "t", "h", "o", "r", "i", "z", "e", "d">>>>

ProhibitionPermission(clause) ==
    /\ AnyIn(ProhibitionTerms, Lower(clause))
    /\ AnyIn(PermissionTerms, Lower(clause))

\* lines 41-68: one loop over the clauses per pattern; a report holds the
\* type and the clause (the fixed description is left out)
IntraReport(type, clause) == [type |-> type, clause |-> clause]

RECURSIVE Pattern1From(_, _)
Pattern1From(clauses, k) ==
    IF k > Len(clauses) THEN <<>>
    ELSE (IF NotwithstandingSubjectTo(clauses[k])
          THEN <<IntraReport("notwithstanding_subject_to", clauses[k])>> ELSE <<>>)
         \o Pattern1From(clauses, k + 1)

RECURSIVE Pattern2From(_, _)
Pattern2From(clauses, k) ==
    IF k > Len(clauses) THEN <<>>
    ELSE (IF ShallMay(clauses[k])
          THEN <<IntraReport("shall_may_conflict", clauses[k])>> ELSE <<>>)
         \o Pattern2From(clauses, k + 1)

RECURSIVE Pattern3From(_, _)
Pattern3From(clauses, k) ==
    IF k > Len(clauses) THEN <<>>
    ELSE (IF ProhibitionPermission(clauses[k])
          THEN <<IntraReport("prohibition_permission_conflict", clauses[k])>> ELSE <<>>)
         \o Pattern3From(clauses, k + 1)

\* lines 75-79: the report of the pair (i, j);
\* 'clause' is "Clause i: <clause1> | Clause j: <clause2>"
CrossReport(i, clause1, j, clause2) ==
    [type |-> "cross_clause_contradiction",
     clause |-> <<"Clause", i, clause1, "Clause", j, clause2>>]

\* lines 71-79: for i, and for j from i+1 on
RECURSIVE CrossFrom(_, _, _)
CrossFrom(clauses, i, j) ==
    IF i > Len(clauses) THEN <<>>
    ELSE IF j > Len(clauses) THEN CrossFrom(clauses, i + 1, i + 2)
    ELSE (IF detect_clause_contradiction(clauses[i], clauses[j])
          THEN <<CrossReport(i, clauses[i], j, clauses[j])>> ELSE <<>>)
         \o CrossFrom(clauses, i, j + 1)

\* detect_contradictions lines 34-80
detect_contradictions(clauses) ==
    Pattern1From(clauses, 1) \o Pattern2From(clauses, 1)
    \o Pattern3From(clauses, 1) \o CrossFrom(clauses, 1, 2)

\* Clauses handed to the detector
InputClauses ==
    { <<"F", "e", "e", " ", "s", "h", "a", "l", "l", " ", "b", "e", " ", "p", "a", "i", "d">>,
      <<"F", "e", "e", " ", "m", "a", "y", " ", "b", "e", " ", "w", "a", "i", "v", "e", "d">>,
      <<"N", "o", "t", "w", "i", "t", "h", "s", "t", "a", "n", "d", "i", "n", "g", " ", "t", "h", "i", "s", ",", " ", "s", "u", "b", "j", "e", "c", "t", " ", "t", "o", " ", "t", "h", "a", "t", ",", " ", "t", "e", "n", "a", "n", "t", " ", "s", "h", "a", "l", "l", " ", "o", "r", " ", "m", "a", "y">>,
      <<"E", "n", "t", "r", "y", " ", "i", "s", " ", "n", "o", "t", " ", "p", "e", "r", "m", "i", "t", "t", "e", "d">>,
      <<"N", "o", "t", "h", "i", "n", "g", " ", "h", "e", "r", "e">> }

ClauseSeqs == UNION {[1..k -> InputClauses] : k \in 0..MaxClauses}

\* A call detect_contradictions(clauses); the input is kept in text.
DetectContradictions ==
    Returns("detect_contradictions", detect_contradictions(text))

InitContradictions == PureInit(ClauseSeqs)
NextContradictions == DetectContradictions
SpecContradictions == InitContradictions /\ [][NextContradictions]_vars

ReportsOfType(reports, type) ==
    LET HasThisType(r) == r.type = type IN SelectSeq(reports, HasThisType)

\* Clause a holds a positive term and clause b a negative term of one row
Opposed(a, b) ==
    \E k \in 1..Len(opposites) :
        /\ \E p \in SeqToSet(opposites[k].positive) : Contains(Lower(a), p)
        /\ \E n \in SeqToSet(opposites[k].negative) : Contains(Lower(b), n)

PairsToReport(clauses) ==
    {<<i, j>> \in (1..Len(clauses)) \X (1..Len(clauses)) :
        i < j /\ (Opposed(clauses[i], clauses[j]) \/ Opposed(clauses[j], clauses[i]))}

PairOf(report) == <<report.clause[2], report.clause[5]>>

\* C13: the cross-clause reports name exactly the pairs (i, j), i < j, in
\* which one clause holds a positive term and the other a negative term of
\* the same row of the table, each pair once, with its two clauses; the test
\* of two clauses gives the same answer in both orders; when no pair and no
\* single clause matches, the result is empty.
C13_CrossClause ==
    Called("detect_contradictions") =>
        LET cross == ReportsOfType(ret.value, "cross_clause_contradiction")
        IN  /\ {PairOf(cross[x]) : x \in 1..Len(cross)} = PairsToReport(text)
            /\ Len(cross) = Cardinality(PairsToReport(text))
            /\ \A x \in 1..Len(cross) :
                  LET i == cross[x].clause[2]
                      j == cross[x].clause[5]
                  IN  cross[x] = CrossReport(i, text[i], j, text[j])
            /\ \A i, j \in 1..Len(text) :
                  detect_clause_contradiction(text[i], text[j])
                      = detect_clause_contradiction(text[j], text[i])
            /\ ( /\ PairsToReport(text) = {}
                 /\ \A i \in 1..Len(text) :
                       /\ ~NotwithstandingSubjectTo(text[i])
                       /\ ~ShallMay(text[i])
                       /\ ~ProhibitionPermission(text[i]) )
               => ret.value = <<>>

C13_Witness ==
    /\ Called("detect_contradictions")
    /\ Len(text) = 3
    /\ Len(ReportsOfType(ret.value, "cross_clause_contradiction")) = 1
    /\ PairsToReport(text) = {<<1, 3>>}
    /\ Opposed(text[3], text[1]) /\ ~Opposed(text[1], text[3])

\* Both texts occur in the lower-cased clause
HoldsBoth(clause, a, b) == Contains(Lower(clause), a) /\ Contains(Lower(clause), b)

\* The clauses, in their order, that hold both members of a pair of the type
ClausesHoldingPair(clauses, type) ==
    LET Holds(c) ==
            CASE type = "notwithstanding_subject_to" ->
                    HoldsBoth(c, <<"n", "o", "t", "w", "i", "t", "h", "s", "t", "a", "n", "d", "i", "n", "g">>, <<"s", "u", "b", "j", "e", "c", "t", " ", "t", "o">>)
              [] type = "shall_may_conflict" ->
                    HoldsBoth(c, <<"s", "h", "a", "l", "l">>, <<"m", "a", "y">>)
              [] OTHER ->
                    \E p \in SeqToSet(ProhibitionTerms), q \in SeqToSet(PermissionTerms) :
                        HoldsBoth(c, p, q)
    IN  SelectSeq(clauses, Holds)

IntraTypes == {"notwithstanding_subject_to", "shall_may_conflict",
               "prohibition_permission_conflict"}

\* C14: for each of the three antagonistic pairs, the reports of its type are
\* exactly the clauses that hold both members of the pair, in clause order,
\* one report per clause and pair; the reports of the three types come first
\* and the cross-clause reports follow, none of them dropped.
C14_IntraClause ==
    Called("detect_contradictions") =>
        /\ \A type \in IntraTypes :
              LET flagged == ClausesHoldingPair(text, type)
              IN  ReportsOfType(ret.value, type) =
                     [x \in 1..Len(flagged) |-> IntraReport(type, flagged[x])]
        /\ ret.value =
              ReportsOfType(ret.value, "notwithstanding_subject_to")
              \o ReportsOfType(ret.value, "shall_may_conflict")
              \o ReportsOfType(ret.value, "prohibition_permission_conflict")
              \o ReportsOfType(ret.value, "cross_clause_contradiction")
        /\ Len(ReportsOfType(ret.value, "cross_clause_contradiction"))
              = Cardinality(PairsToReport(text))

C14_Witness ==
    /\ Called("detect_contradictions")
    /\ Len(text) = 2
    /\ Len(ret.value) = 3
    /\ ret.value[1] = IntraReport("notwithstanding_subject_to", text[1])
    /\ ret.value[2] = IntraReport("shall_may_conflict", text[1])
    /\ ret.value[3] = CrossReport(1, text[1], 2, text[2])

----------------------------------------------------------------------------
(* Contradiction detection of sentences: modules/nlp_processor.py *)

MaxSentences == 2     \* sentences of a text handed to detect_contradictions

\* \w of a regular expression
Digits == <<"0", "1", "2", "3", "4", "5", "6", "7", "8", "9">>
WordChars == SeqToSet(LowerCase) \cup SeqToSet(UpperCase) \cup SeqToSet(Digits) \cup {"_"}
IsWordChar(c) == c \in WordChars

\* _load_contradiction_patterns lines 179-198: the ten pairs of patterns.
\* Every pattern is \b(a|b|...)\b; it is kept as the list of the phrases it
\* matches ('required?' is require and required, 'include[sd]?' is include,
\* includes and included).
contradiction_patterns ==
    <<
      [pattern1 |-> <<
            <<"s", "h", "a", "l", "l">>,
            <<"m", "u", "s", "t">>,
            <<"w", "i", "l", "l">>,
            <<"r", "e", "q", "u", "i", "r", "e">>,
            <<"r", "e", "q", "u", "i", "r", "e", "d">> >>,
       pattern2 |-> <<
            <<"s", "h", "a", "l", "l", " ", "n", "o", "t">>,
            <<"m", "u", "s", "t", " ", "n", "o", "t">>,
            <<"w", "i", "l", "l", " ", "n", "o", "t">>,
            <<"n", "o", "t", " ", "r", "e", "q", "u", "i", "r", "e", "d">>,
            <<"p", "r", "o", "h", "i", "b", "i", "t", "e", "d">>,
            <<"f", "o", "r", "b", "i", "d", "d", "e", "n">> >>],
      [pattern1 |-> <<
            <<"m", "a", "n", "d", "a", "t", "o", "r", "y">>,
            <<"c", "o", "m", "p", "u", "l", "s", "o", "r", "y">>,
            <<"o", "b", "l", "i", "g", "a", "t", "o", "r", "y">> >>,
       pattern2 |-> <<
            <<"o", "p", "t", "i", "o", "n", "a", "l">>,
            <<"v", "o", "l", "u", "n", "t", "a", "r", "y">>,
            <<"d", "i", "s", "c", "r", "e", "t", "i", "o", "n", "a", "r", "y">> >>],
      [pattern1 |-> <<
            <<"a", "l", "w", "a", "y", "s">>,
            <<"i", "n", "v", "a", "r", "i", "a", "b", "l", "y">>,
            <<"w", "i", "t", "h", "o", "u", "t", " ", "e", "x", "c", "e", "p", "t", "i", "o", "n">> >>,
       pattern2 |-> <<
            <<"n", "e", "v", "e", "r">>,
            <<"s", "o", "m", "e", "t", "i", "m", "e", "s">>,
            <<"m", "a", "y">>,
            <<"m", "i", "g", "h", "t">>,
            <<"c", "o", "u", "l", "d">> >>],
      [pattern1 |-> <<
            <<"a", "l", "l">>,
            <<"e", "v", "e", "r", "y">>,
            <<"e", "a", "c", "h">> >>,
       pattern2 |-> <<
            <<"n", "o", "n", "e">>,
            <<"n", "o">>,
            <<"n", "o", "t", " ", "a", "n", "y">> >>],
      [pattern1 |-> <<
            <<"i", "n", "c", "l", "u", "d", "e">>,
            <<"i", "n", "c", "l", "u", "d", "e", "s">>,
            <<"i", "n", "c", "l", "u", "d", "e", "d">>,
            <<"c", "o", "n", "t", "a", "i", "n">>,
            <<"c", "o", "n", "t", "a", "i", "n", "s">>,
            <<"c", "o", "n", "t", "a", "i", "n", "d">> >>,
       pattern2 |-> <<
            <<"e", "x", "c", "l", "u", "d", "e">>,
            <<"e", "x", "c", "l", "u", "d", "e", "s">>,
            <<"e", "x", "c", "l", "u", "d", "e", "d">>,
            <<"o", "m", "i", "t">>,
            <<"o", "m", "i", "t", "s">>,
            <<"o", "m", "i", "t", "d">>,
            <<"n", "o", "t", " ", "i", "n", "c", "l", "u", "d", "e">> >>],
      [pattern1 |-> <<
            <<"p", "e", "r", "m", "i", "t">>,
            <<"p", "e", "r", "m", "i", "t", "s">>,
            <<"p", "e", "r", "m", "i", "t", "d">>,
            <<"a", "l", "l", "o", "w">>,
            <<"a", "l", "l", "o", "w", "s">>,
            <<"a", "l", "l", "o", "w", "d">>,
            <<"a", "u", "t", "h", "o", "r", "i", "z", "e">>,
            <<"a", "u", "t", "h", "o", "r", "i", "z", "e", "s">>,
            <<"a", "u", "t", "h", "o", "r", "i", "z", "e", "d">> >>,
       pattern2 |-> <<
            <<"p", "r", "o", "h", "i", "b", "i", "t">>,
            <<"p", "r", "o", "h", "i", "b", "i", "t", "s">>,
            <<"p", "r", "o", "h", "i", "b", "i", "t", "d">>,
            <<"f", "o", "r", "b", "i", "d">>,
            <<"f", "o", "r", "b", "i", "d", "s">>,
            <<"f", "o", "r", "b", "i", "d", "d">>,
            <<"b", "a", "n">>,
            <<"b", "a", "n", "s">>,
            <<"b", "a", "n", "d">> >>],
      [pattern1 |-> <<
            <<"b", "e", "f", "o", "r", "e">>,
            <<"p", "r", "i", "o", "r", " ", "t", "o">>,
            <<"p", "r", "e", "c", "e", "d", "i", "n", "g">> >>,
       pattern2 |-> <<
            <<"a", "f", "t", "e", "r">>,
            <<"f", "o", "l", "l", "o", "w", "i", "n", "g">>,
            <<"s", "u", "b", "s", "e", "q", "u", "e", "n", "t", " ", "t", "o">> >>],
      [pattern1 |-> <<
            <<"i", "m", "m", "e", "d", "i", "a", "t", "e">>,
            <<"i", "n", "s", "t", "a", "n", "t">>,
            <<"f", "o", "r", "t", "h", "w", "i", "t", "h">> >>,
       pattern2 |-> <<
            <<"d", "e", "l", "a", "y", "e", "d">>,
            <<"p", "o", "s", "t", "p", "o", "n", "e", "d">>,
            <<"d", "e", "f", "e", "r", "r", "e", "d">> >>],
      [pattern1 |-> <<
            <<"m", "a", "x", "i", "m", "u", "m">>,
            <<"a", "t", " ", "m", "o", "s", "t">>,
            <<"n", "o", " ", "m", "o", "r", "e", " ", "t", "h", "a", "n">> >>,
       pattern2 |-> <<
            <<"m", "i", "n", "i", "m", "u", "m">>,
            <<"a", "t", " ", "l", "e", "a", "s", "t">>,
            <<"n", "o", " ", "l", "e", "s", "s", " ", "t", "h", "a", "n">> >>],
      [pattern1 |-> <<
            <<"i", "n", "c", "r", "e", "a", "s", "e">>,
            <<"r", "a", "i", "s", "e">>,
            <<"e", "l", "e", "v", "a", "t", "e">> >>,
       pattern2 |-> <<
            <<"d", "e", "c", "r", "e", "a", "s", "e">>,
            <<"l", "o", "w", "e", "r">>,
            <<"r", "e", "d", "u", "c", "e">> >>]
    >>

\* The phrase stands in t at place i between two word boundaries (\b)
MatchesAt(t, phrase, i) ==
    /\ i + Len(phrase) - 1 <= Len(t)
    /\ SubSeq(t, i, i + Len(phrase) - 1) = phrase
    /\ (i = 1 \/ ~IsWordChar(t[i - 1]))
    /\ (i + Len(phrase) - 1 = Len(t) \/ ~IsWordChar(t[i + Len(phrase)]))

\* re.search(pattern, sentence, re.IGNORECASE) finds a match
Searches(pattern, sentence) ==
    \E lowered \in {Lower(sentence)} :
        \E k \in 1..Len(pattern), i \in 1..Len(sentence) :
            /\ lowered[i] = pattern[k][1]
            /\ MatchesAt(lowered, pattern[k], i)

\* full_text.find(sentence): the place of the first occurrence, counted
\* from 0, or -1
Find(t, pat) ==
    IF Contains(t, pat)
    THEN (CHOOSE i \in 1..Len(t) :
             /\ i + Len(pat) - 1 <= Len(t)
             /\ SubSeq(t, i, i + Len(pat) - 1) = pat
             /\ \A h \in 1..(i - 1) : SubSeq(t, h, h + Len(pat) - 1) # pat) - 1
    ELSE -1

NoPair == [statement1 |-> None, statement2 |-> None,
           confidence |-> [num |-> 0, den |-> 1], explanation |-> None,
           location1 |-> <<-1, -1>>, location2 |-> <<-1, -1>>]

\* lines 291-306: the pair built for two sentences (the matched words of the
\* explanation are left out)
PatternPair(sent1, sent2, full_text) ==
    [statement1 |-> sent1, statement2 |-> sent2,
     confidence |-> [num |-> 8, den |-> 10],
     explanation |-> "Contradictory patterns detected",
     location1 |-> <<Find(full_text, sent1), Find(full_text, sent1) + Len(sent1)>>,
     location2 |-> <<Find(full_text, sent2), Find(full_text, sent2) + Len(sent2)>>]

RECURSIVE CheckSwappedFrom(_, _, _, _)
CheckSwappedFrom(k, sent1, sent2, full_text) ==
    IF k > Len(contradiction_patterns) THEN NoPair
    ELSE IF /\ Searches(contradiction_patterns[k].pattern1, sent2)
            /\ Searches(contradiction_patterns[k].pattern2, sent1)
            /\ Find(full_text, sent1) # -1
            /\ Find(full_text, sent2) # -1
         THEN PatternPair(sent1, sent2, full_text)
         ELSE CheckSwappedFrom(k + 1, sent1, sent2, full_text)

\* lines 286-308: the loop over the pairs of patterns
RECURSIVE CheckFrom(_, _, _, _)
CheckFrom(k, sent1, sent2, full_text) ==
    IF k > Len(contradiction_patterns) THEN NoPair
    ELSE IF /\ Searches(contradiction_patterns[k].pattern1, sent1)
            /\ Searches(contradiction_patterns[k].pattern2, sent2)
            /\ Find(full_text, sent1) # -1
            /\ Find(full_text, sent2) # -1
         THEN PatternPair(sent1, sent2, full_text)
         ELSE CheckFrom(k + 1, sent1, sent2, full_text)

_check_sentence_contradiction_swapped(sent1, sent2, full_text) ==
    CheckSwappedFrom(1, sent1, sent2, full_text)

\* _check_sentence_contradiction lines 284-308; NoPair stands for None
_check_sentence_contradiction(sent1, sent2, full_text) ==
    CheckFrom(1, sent1, sent2, full_text)

\* lines 255-259: the pattern-based pairs, for i, and for j from i+1 on
RECURSIVE PatternPairsFrom(_, _, _, _)
PatternPairsFrom(sentences, i, j, full_text) ==
    IF i > Len(sentences) THEN <<>>
    ELSE IF j > Len(sentences) THEN PatternPairsFrom(sentences, i + 1, i + 2, full_text)
    ELSE LET c == _check_sentence_contradiction(sentences[i], sentences[j], full_text)
         IN  (IF c # NoPair THEN <<c>> ELSE <<>>)
             \o PatternPairsFrom(sentences, i, j + 1, full_text)

\* line 351: the negation words
negation_words ==
    { <<"n", "o", "t">>,
      <<"n", "o">>,
      <<"n", "e", "v", "e", "r">>,
      <<"n", "o", "n", "e">>,
      <<"n", "o", "t", "h", "i", "n", "g">>,
      <<"n", "e", "i", "t", "h", "e", "r">>,
      <<"n", "o", "r">> }

\* lines 349-357: one sentence holds a negation word as a token and the other
\* does not
HasNegation(sentence) ==
    \E lowered \in {Lower(sentence)} :
        \E w \in negation_words, i \in 1..Len(sentence) :
            /\ lowered[i] = w[1]
            /\ MatchesAt(lowered, w, i)

_has_negation_difference(sent1, sent2) == HasNegation(sent1) # HasNegation(sent2)

\* doc1.similarity(doc2) (line 323) is computed by the language model; here
\* it is one of two values, below and above the threshold 0.7 of line 326.
SimilarityValues == {[num |-> 5, den |-> 10], [num |-> 9, den |-> 10]}

\* lines 329-341: the pair built for two similar sentences
SemanticPair(sent1, sent2, full_text, similarity) ==
    [statement1 |-> sent1, statement2 |-> sent2,
     confidence |-> [num |-> similarity.num * 6, den |-> similarity.den * 10],
     explanation |-> "Semantic contradiction detected through similarity analysis",
     location1 |-> <<Find(full_text, sent1), Find(full_text, sent1) + Len(sent1)>>,
     location2 |-> <<Find(full_text, sent2), Find(full_text, sent2) + Len(sent2)>>]

\* _detect_semantic_contradictions lines 310-347, for the similarities sim
RECURSIVE SemanticPairsFrom(_, _, _, _, _)
SemanticPairsFrom(sentences, i, j, full_text, sim) ==
    IF i > Len(sentences) THEN <<>>
    ELSE IF j > Len(sentences)
         THEN SemanticPairsFrom(sentences, i + 1, i + 2, full_text, sim)
    ELSE (IF /\ sim[<<i, j>>].num * 10 > 7 * sim[<<i, j>>].den
             /\ _has_negation_difference(sentences[i], sentences[j])
             /\ Find(full_text, sentences[i]) # -1
             /\ Find(full_text, sentences[j]) # -1
          THEN <<SemanticPair(sentences[i], sentences[j], full_text, sim[<<i, j>>])>>
          ELSE <<>>)
         \o SemanticPairsFrom(sentences, i, j + 1, full_text, sim)

\* LegalNLPProcessor.detect_contradictions lines 240-272, for the sentences
\* the segmenter finds in the text (_split_into_sentences, lines 274-282)
nlp_detect_contradictions(sentences, full_text, sim) ==
    PatternPairsFrom(sentences, 1, 2, full_text)
    \o SemanticPairsFrom(sentences, 1, 2, full_text, sim)

\* Sentences of input texts
InputSentences ==
    { <<"T", "h", "e", " ", "t", "e", "n", "a", "n", "t", " ", "s", "h", "a", "l", "l", " ", "p", "a", "y", ".">>,
      <<"T", "h", "e", " ", "t", "e", "n", "a", "n", "t", " ", "s", "h", "a", "l", "l", " ", "n", "o", "t", " ", "p", "a", "y", ".">>,
      <<"P", "a", "y", " ", "b", "e", "f", "o", "r", "e", " ", "n", "o", "o", "n", ".">>,
      <<"P", "a", "y", " ", "a", "f", "t", "e", "r", " ", "n", "o", "o", "n", ".">>,
      <<"N", "o", "t", "h", "i", "n", "g", " ", "i", "s", " ", "i", "n", "c", "l", "u", "d", "e", "d", ".">>,
      <<"M", "a", "r", "s", "h", "a", "l", "l", " ", "p", "a", "y", "s", ".">>,
      <<"A", "l", "l", " ", "f", "e", "e", "s", " ", "a", "r", "e", " ", "o", "p", "t", "i", "o", "n", "a", "l", ".">> }

SentenceSeqs == UNION {[1..k -> InputSentences] : k \in 1..MaxSentences}

SentencePairs(n) == {p \in (1..n) \X (1..n) : p[1] < p[2]}

\* A call detect_contradictions(full_text), where full_text is the sentences
\* of the input, kept in text, separated by blanks.
NlpDetectContradictions ==
    \E sim \in [SentencePairs(MaxSentences) -> SimilarityValues] :
        Returns("LegalNLPProcessor.detect_contradictions",
                nlp_detect_contradictions(text, Join(text), sim))

InitNlp == PureInit(SentenceSeqs)
NextNlp == NlpDetectContradictions
SpecNlp == InitNlp /\ [][NextNlp]_vars

\* C15: for a text of two sentences of which the first matches the first
\* pattern and the second the second pattern of one pair of the table,
\* detect_contradictions returns at least one pair, and the first pair
\* returned has the first sentence as statement1 and the second sentence as
\* statement2.
C15_PatternContradiction ==
    ( /\ Called("LegalNLPProcessor.detect_contradictions")
      /\ Len(text) = 2
      /\ \E k \in 1..Len(contradiction_patterns) :
            /\ Searches(contradiction_patterns[k].pattern1, text[1])
            /\ Searches(contradiction_patterns[k].pattern2, text[2]) )
    => /\ Len(ret.value) >= 1
       /\ ret.value[1].statement1 = text[1]
       /\ ret.value[1].statement2 = text[2]

C15_Witness ==
    /\ Called("LegalNLPProcessor.detect_contradictions")
    /\ text = <<<<"T", "h", "e", " ", "t", "e", "n", "a", "n", "t", " ", "s", "h", "a", "l", "l", " ", "p", "a", "y", ".">>,
               <<"T", "h", "e", " ", "t", "e", "n", "a", "n", "t", " ", "s", "h", "a", "l", "l", " ", "n", "o", "t", " ", "p", "a", "y", ".">>>>
    /\ Len(ret.value) = 2
    /\ ret.value[1].statement1 = text[1]
    /\ ret.value[1].statement2 = text[2]
    /\ ret.value[1].confidence = [num |-> 8, den |-> 10]
    /\ ret.value[1].location2 = <<22, 47>>

----------------------------------------------------------------------------
(* Clause extraction: agents/JARVIS/jarvis_agent.py, extract_clauses *)

MaxFragments == 2     \* blank-separated fragments of a text handed to extract_clauses

\* \s of a regular expression, and the characters str.strip() removes
IsSpace(c) == c \in {" ", "\t", "\n"}

\* [.!?] of line 23
IsTerminator(c) == c \in {".", "!", "?"}

RECURSIVE StripLeft(_)
StripLeft(t) == IF t # <<>> /\ IsSpace(t[1]) THEN StripLeft(Tail(t)) ELSE t

RECURSIVE StripRight(_)
StripRight(t) ==
    IF t # <<>> /\ IsSpace(t[Len(t)]) THEN StripRight(SubSeq(t, 1, Len(t) - 1)) ELSE t

\* str.strip()
Strip(t) == StripRight(StripLeft(t))

StartsWith(t, i, pat) ==
    /\ i + Len(pat) - 1 <= Len(t)
    /\ SubSeq(t, i, i + Len(pat) - 1) = pat

\* str.replace(old, new): every occurrence, from the left, without overlap
RECURSIVE ReplaceFrom(_, _, _, _)
ReplaceFrom(t, i, old, new) ==
    IF i > Len(t) THEN <<>>
    ELSE IF StartsWith(t, i, old) THEN new \o ReplaceFrom(t, i + Len(old), old, new)
    ELSE <<t[i]>> \o ReplaceFrom(t, i + 1, old, new)

Replace(t, old, new) == ReplaceFrom(t, 1, old, new)

\* line 15: the list abbreviations of extract_clauses, in its order
clause_abbreviations ==
    <<
        <<"U", ".", "S", ".">>,
        <<"U", ".", "S", ".", "C", ".">>,
        <<"C", ".", "F", ".", "R", ".">>,
        <<"F", "e", "d", ".">>,
        <<"R", "e", "g", ".">>,
        <<"I", "n", "c", ".">>,
        <<"C", "o", "r", "p", ".">>,
        <<"L", "t", "d", ".">>,
        <<"C", "o", ".">>,
        <<"v", "s", ".">>,
        <<"v", ".">>
    >>

DigitsOf(n) ==
    IF n < 10 THEN <<Digits[n + 1]>>
    ELSE <<Digits[(n \div 10) + 1], Digits[(n % 10) + 1]>>

\* f"__ABBREV_{i}__" of lines 20 and 27, i counted from 0
Placeholder(i) == <<"_", "_", "A", "B", "B", "R", "E", "V", "_">> \o DigitsOf(i) \o <<"_", "_">>

\* lines 18-20: the abbreviations are replaced one after the other
RECURSIVE ProtectFrom(_, _)
ProtectFrom(k, t) ==
    IF k > Len(clause_abbreviations) THEN t
    ELSE ProtectFrom(k + 1, Replace(t, clause_abbreviations[k], Placeholder(k - 1)))

\* lines 26-27, for one clause
RECURSIVE RestoreFrom(_, _)
RestoreFrom(k, clause) ==
    IF k > Len(clause_abbreviations) THEN clause
    ELSE RestoreFrom(k + 1, Replace(clause, Placeholder(k - 1), clause_abbreviations[k]))

\* The last place of the run of characters of the kind isSpace (or of
\* terminators) that starts at i
RECURSIVE RunEnd(_, _, _)
RunEnd(t, i, spaces) ==
    IF i < Len(t) /\ (IF spaces THEN IsSpace(t[i + 1]) ELSE IsTerminator(t[i + 1]))
    THEN RunEnd(t, i + 1, spaces)
    ELSE i

\* The last place of a match of [.!?]+\s+ that starts at i, or 0
SeparatorEnd(t, i) ==
    IF ~IsTerminator(t[i]) THEN 0
    ELSE LET j == RunEnd(t, i, FALSE)
         IN  IF j < Len(t) /\ IsSpace(t[j + 1]) THEN RunEnd(t, j + 1, TRUE) ELSE 0

\* line 23: re.split(r'[.!?]+\s+', t), empty pieces included
RECURSIVE ReSplitFrom(_, _, _)
ReSplitFrom(t, i, piece) ==
    IF i > Len(t) THEN <<piece>>
    ELSE IF SeparatorEnd(t, i) # 0
         THEN <<piece>> \o ReSplitFrom(t, SeparatorEnd(t, i) + 1, <<>>)
         ELSE ReSplitFrom(t, i + 1, Append(piece, t[i]))

ReSplit(t) == ReSplitFrom(t, 1, <<>>)

\* line 30: the clauses that are not blank, stripped
RECURSIVE StrippedNonEmpty(_)
StrippedNonEmpty(clauses) ==
    IF clauses = <<>> THEN <<>>
    ELSE (IF Strip(clauses[1]) # <<>> THEN <<Strip(clauses[1])>> ELSE <<>>)
         \o StrippedNonEmpty(Tail(clauses))

\* extract_clauses lines 5-32
extract_clauses(t) ==
    LET temp_text == ProtectFrom(1, Strip(t))
        clauses   == ReSplit(temp_text)
        restored  == [i \in 1..Len(clauses) |-> RestoreFrom(1, clauses[i])]
    IN  StrippedNonEmpty(restored)

\* Fragments of input texts: the abbreviations, words with and without
\* terminators, a placeholder written out, and the empty fragment
ClauseFragments ==
    { <<"U", ".", "S", ".">>,
      <<"U", ".", "S", ".", "C", ".">>,
      <<"C", ".", "F", ".", "R", ".">>,
      <<"F", "e", "d", ".">>,
      <<"R", "e", "g", ".">>,
      <<"I", "n", "c", ".">>,
      <<"C", "o", "r", "p", ".">>,
      <<"L", "t", "d", ".">>,
      <<"C", "o", ".">>,
      <<"v", "s", ".">>,
      <<"v", ".">>,
      <<"A", "c", "t">>,
      <<"e", "n", "d", "s", ".">>,
      <<"w", "h", "y", "?", "!">>,
      <<"_", "_", "A", "B", "B", "R", "E", "V", "_", "0", "_", "_">>,
      <<>> }

ClauseTexts == {Join(w) : w \in UNION {[1..k -> ClauseFragments] : k \in 0..MaxFragments}}

\* A call extract_clauses(text)
ExtractClauses == Returns("extract_clauses", extract_clauses(text))

InitClauses == PureInit(ClauseTexts)
NextClauses == ExtractClauses
SpecClauses == InitClauses /\ [][NextClauses]_vars

\* The abbreviation stands in t at place i, followed by whitespace and by a
\* further word, whose first character is at place j
FollowedByWord(t, abbrev, i, j) ==
    /\ StartsWith(t, i, abbrev)
    /\ j > i + Len(abbrev)
    /\ j <= Len(t)
    /\ ~IsSpace(t[j])
    /\ \A h \in (i + Len(abbrev))..(j - 1) : IsSpace(t[h])

\* C16: for every abbreviation of the list, a text in which the abbreviation
\* is followed by whitespace and a further word is not split at the
\* abbreviation: one clause of the result holds the abbreviation as written,
\* the whitespace and the start of the word after it.
C16_AbbreviationsProtected ==
    Called("extract_clauses") =>
        \A k \in 1..Len(clause_abbreviations), i \in 1..Len(text), j \in 1..Len(text) :
            FollowedByWord(text, clause_abbreviations[k], i, j)
            => \E c \in 1..Len(ret.value) : Contains(ret.value[c], SubSeq(text, i, j))

HasSeparator(t) == \E i \in 1..Len(t) : SeparatorEnd(t, i) # 0

\* C17: extract_clauses returns clauses that are non-empty, stripped and
\* free of placeholders, and a text without a terminator followed by
\* whitespace yields exactly one clause, the stripped text.
C17_ClausesWellFormed ==
    Called("extract_clauses") =>
        /\ \A c \in 1..Len(ret.value) :
              /\ ret.value[c] # <<>>
              /\ Strip(ret.value[c]) = ret.value[c]
              /\ \A k \in 1..Len(clause_abbreviations) :
                    ~Contains(ret.value[c], Placeholder(k - 1))
        /\ ~HasSeparator(text) => ret.value = <<Strip(text)>>

----------------------------------------------------------------------------
(* Sovereignty scoring: modules/sovereignty_scorer.py *)

MaxPhrases == 2     \* blank-separated phrases of a text handed to score_text

(* Rational numbers stand for the floats of the scorer: [num, den] in
   lowest terms with den > 0.  The operators bind their arguments, so that
   each is evaluated once. *)
RECURSIVE GCD(_, _)
GCD(a, b) == IF b = 0 THEN a ELSE GCD(b, a % b)

Abs(a) == IF a < 0 THEN -a ELSE a

TheOnly(S) == CHOOSE x \in S : TRUE

Rat(n, d) ==
    TheOnly({ LET g == GCD(Abs(a), Abs(b))
                  sign == IF b < 0 THEN -1 ELSE 1
              IN  [num |-> sign * (a \div g), den |-> sign * (b \div g)]
              : a \in {n}, b \in {d} })

RatAdd(x, y) == TheOnly({Rat(a.num * b.den + b.num * a.den, a.den * b.den) : a \in {x}, b \in {y}})
RatSub(x, y) == TheOnly({Rat(a.num * b.den - b.num * a.den, a.den * b.den) : a \in {x}, b \in {y}})
RatMul(x, y) == TheOnly({Rat(a.num * b.num, a.den * b.den) : a \in {x}, b \in {y}})
RatDiv(x, y) == TheOnly({Rat(a.num * b.den, a.den * b.num) : a \in {x}, b \in {y}})
RatLeq(x, y) == \E a \in {x}, b \in {y} : a.num * b.den <= b.num * a.den
RatLess(x, y) == \E a \in {x}, b \in {y} : a.num * b.den < b.num * a.den
RatMax(x, y) == TheOnly({IF RatLeq(a, b) THEN b ELSE a : a \in {x}, b \in {y}})
RatMin(x, y) == TheOnly({IF RatLeq(a, b) THEN a ELSE b : a \in {x}, b \in {y}})
Half == Rat(1, 2)
Zero == Rat(0, 1)
One == Rat(1, 1)

(* Regular expressions, as the syntax trees of the patterns *)
SpaceChars == {" ", "\t", "\n"}
DigitChars == SeqToSet(Digits)
Lit(s) == [kind |-> "lit", s |-> s]
In(set) == [kind |-> "in", set |-> set]
AnyChar == [kind |-> "any"]
WordBoundary == [kind |-> "b"]
Cat(rs) == [kind |-> "cat", rs |-> rs]
Alt(rs) == [kind |-> "alt", rs |-> rs]
Opt(r) == [kind |-> "opt", r |-> r]
Plus(r) == [kind |-> "plus", r |-> r]
Star(r) == [kind |-> "star", r |-> r]

\* \b at place i: exactly one of the characters before and at i is a word
\* character
AtBoundary(t, i) ==
    (i > 1 /\ IsWordChar(t[i - 1])) # (i <= Len(t) /\ IsWordChar(t[i]))

\* .* runs to the end of the line
AnyRunEnd(t, i) ==
    LET stops == {j \in i..Len(t) : t[j] = "\n"}
    IN  IF stops = {} THEN Len(t) + 1 ELSE CHOOSE j \in stops : \A h \in stops : j <= h

\* The place after the match of the expressions of todo, one after the
\* other, that starts at place i of t, or 0 when there is none: the first
\* match the backtracking matcher of re finds, which tries alternatives from
\* the left and repetitions greedily.
RECURSIVE MatchEnd(_, _, _)
MatchEnd(todo, t, i) ==
    IF todo = <<>> THEN i
    ELSE LET r == todo[1]
             rest == Tail(todo)
         IN  CASE r.kind = "lit"  -> IF StartsWith(t, i, r.s)
                                     THEN MatchEnd(rest, t, i + Len(r.s)) ELSE 0
               [] r.kind = "in"   -> IF i <= Len(t) /\ t[i] \in r.set
                                     THEN MatchEnd(rest, t, i + 1) ELSE 0
               [] r.kind = "any"  -> IF i <= Len(t) /\ t[i] # "\n"
                                     THEN MatchEnd(rest, t, i + 1) ELSE 0
               [] r.kind = "b"    -> IF AtBoundary(t, i) THEN MatchEnd(rest, t, i) ELSE 0
               [] r.kind = "cat"  -> MatchEnd(r.rs \o rest, t, i)
               [] r.kind = "alt"  ->
                    IF r.rs = <<>> THEN 0
                    ELSE LET e == MatchEnd(<<r.rs[1]>> \o rest, t, i)
                         IN  IF e # 0 THEN e
                             ELSE MatchEnd(<<Alt(Tail(r.rs))>> \o rest, t, i)
               [] r.kind = "opt"  ->
                    LET e == MatchEnd(<<r.r>> \o rest, t, i)
                    IN  IF e # 0 THEN e ELSE MatchEnd(rest, t, i)
               [] r.kind = "plus" -> MatchEnd(<<r.r, Star(r.r)>> \o rest, t, i)
               [] r.kind = "star" ->
                    IF r.r.kind = "any"
                    THEN \* the longest run of characters after which the rest matches
                         LET good == {j \in i..AnyRunEnd(t, i) : MatchEnd(rest, t, j) # 0}
                         IN  IF good = {} THEN 0
                             ELSE MatchEnd(rest, t, CHOOSE j \in good : \A h \in good : h <= j)
                    ELSE LET e == MatchEnd(<<r.r>>, t, i)
                             more == IF e > i THEN MatchEnd(<<r.r, r>> \o rest, t, i) ELSE 0
                         IN  IF more # 0 THEN more ELSE MatchEnd(rest, t, i)

\* What a match of the expressions of todo can begin with: the characters
\* (any: every character but the newline), and whether it can be empty.  A
\* match can start only at a place that holds one of them; the search skips
\* the other places.
RECURSIVE First(_)
First(todo) ==
    IF todo = <<>> THEN [chars |-> {}, any |-> FALSE, empty |-> TRUE]
    ELSE LET r == todo[1]
             rest == Tail(todo)
         IN  CASE r.kind = "lit"  -> IF r.s = <<>> THEN First(rest)
                                     ELSE [chars |-> {r.s[1]}, any |-> FALSE, empty |-> FALSE]
               [] r.kind = "in"   -> [chars |-> r.set, any |-> FALSE, empty |-> FALSE]
               [] r.kind = "any"  -> [chars |-> {}, any |-> TRUE, empty |-> FALSE]
               [] r.kind = "b"    -> First(rest)
               [] r.kind = "cat"  -> First(r.rs \o rest)
               [] r.kind = "alt"  ->
                    IF r.rs = <<>> THEN [chars |-> {}, any |-> FALSE, empty |-> FALSE]
                    ELSE LET f == First(<<r.rs[1]>> \o rest)
                             g == First(<<Alt(Tail(r.rs))>> \o rest)
                         IN  [chars |-> f.chars \cup g.chars, any |-> f.any \/ g.any,
                              empty |-> f.empty \/ g.empty]
               [] r.kind = "plus" -> First(<<r.r>> \o rest)
               [] r.kind \in {"opt", "star"} ->
                    LET f == First(<<r.r>> \o rest)
                        g == First(rest)
                    IN  [chars |-> f.chars \cup g.chars, any |-> f.any \/ g.any,
                         empty |-> f.empty \/ g.empty]

CanStartAt(first, t, i) ==
    \/ first.empty
    \/ i <= Len(t) /\ (t[i] \in first.chars \/ (first.any /\ t[i] # "\n"))

\* re.finditer(pattern, t): the matches from the left, without overlap, each
\* as the places [from, to) counted from 0 (match.span()); starts are the
\* places a match can start at, in rising order
RECURSIVE FindIterOver(_, _, _, _, _)
FindIterOver(r, t, starts, h, from) ==
    IF h > Len(starts) THEN <<>>
    ELSE IF starts[h] < from THEN FindIterOver(r, t, starts, h + 1, from)
    ELSE LET i == starts[h]
             e == MatchEnd(<<r>>, t, i)
         IN  IF e = 0 THEN FindIterOver(r, t, starts, h + 1, from)
             ELSE <<(<<i - 1, e - 1>>)>>
                  \o FindIterOver(r, t, starts, h + 1, IF e > i THEN e ELSE i + 1)

FindIter(r, t) ==
    LET first == First(<<r>>)
    IN  FindIterOver(r, t, SelectSeq([i \in 1..(Len(t) + 1) |-> i],
                                     LAMBDA i : CanStartAt(first, t, i)), 1, 1)

\* match.group() of a span
Group(t, span) == SubSeq(t, span[1] + 1, span[2])

\* lines 63-97: self.servile_patterns
servile_patterns ==
    <<
      [category |-> "submission_language",
       patterns |-> <<
            \* \bplease\b.*\b(help|assist|allow|permit)\b
            Cat(<<WordBoundary, Lit(<<"p", "l", "e", "a", "s", "e">>), WordBoundary, Star(AnyChar),
              WordBoundary, Alt(<<Lit(<<"h", "e", "l", "p">>), Lit(<<"a", "s", "s", "i", "s", "t">>),
              Lit(<<"a", "l", "l", "o", "w">>), Lit(<<"p", "e", "r", "m", "i", "t">>)>>),
              WordBoundary>>),
            \* \bi\s+(humbly|respectfully)\s+(request|ask|beg)\b
            Cat(<<WordBoundary, Lit(<<"i">>), Plus(In(SpaceChars)), Alt(<<Lit(<<"h", "u", "m", "b",
              "l", "y">>), Lit(<<"r", "e", "s", "p", "e", "c", "t", "f", "u", "l", "l", "y">>)>>),
              Plus(In(SpaceChars)), Alt(<<Lit(<<"r", "e", "q", "u", "e", "s", "t">>), Lit(<<"a", "s",
              "k">>), Lit(<<"b", "e", "g">>)>>), WordBoundary>>),
            \* \bif\s+it\s+pleases?\s+(the\s+)?(court|your\s+honor)\b
            Cat(<<WordBoundary, Lit(<<"i", "f">>), Plus(In(SpaceChars)), Lit(<<"i", "t">>),
              Plus(In(SpaceChars)), Lit(<<"p", "l", "e", "a", "s", "e">>), Opt(Lit(<<"s">>)),
              Plus(In(SpaceChars)), Opt(Cat(<<Lit(<<"t", "h", "e">>), Plus(In(SpaceChars))>>)),
              Alt(<<Lit(<<"c", "o", "u", "r", "t">>), Cat(<<Lit(<<"y", "o", "u", "r">>),
              Plus(In(SpaceChars)), Lit(<<"h", "o", "n", "o", "r">>)>>)>>), WordBoundary>>),
            \* \bwith\s+all\s+due\s+respect\b
            Cat(<<WordBoundary, Lit(<<"w", "i", "t", "h">>), Plus(In(SpaceChars)), Lit(<<"a", "l",
              "l">>), Plus(In(SpaceChars)), Lit(<<"d", "u", "e">>), Plus(In(SpaceChars)), Lit(<<"r",
              "e", "s", "p", "e", "c", "t">>), WordBoundary>>),
            \* \bi\s+am\s+(just|only|merely)\s+a\b
            Cat(<<WordBoundary, Lit(<<"i">>), Plus(In(SpaceChars)), Lit(<<"a", "m">>),
              Plus(In(SpaceChars)), Alt(<<Lit(<<"j", "u", "s", "t">>), Lit(<<"o", "n", "l", "y">>),
              Lit(<<"m", "e", "r", "e", "l", "y">>)>>), Plus(In(SpaceChars)), Lit(<<"a">>),
              WordBoundary>>),
            \* \bi\s+don'?t\s+understand\s+(the\s+)?law\b
            Cat(<<WordBoundary, Lit(<<"i">>), Plus(In(SpaceChars)), Lit(<<"d", "o", "n">>),
              Opt(Lit(<<"'">>)), Lit(<<"t">>), Plus(In(SpaceChars)), Lit(<<"u", "n", "d", "e", "r",
              "s", "t", "a", "n", "d">>), Plus(In(SpaceChars)), Opt(Cat(<<Lit(<<"t", "h", "e">>),
              Plus(In(SpaceChars))>>)), Lit(<<"l", "a", "w">>), WordBoundary>>) >>],
      [category |-> "dependency_language",
       patterns |-> <<
            \* \bneed\s+(your\s+)?(permission|approval|authorization)\b
            Cat(<<WordBoundary, Lit(<<"n", "e", "e", "d">>), Plus(In(SpaceChars)),
              Opt(Cat(<<Lit(<<"y", "o", "u", "r">>), Plus(In(SpaceChars))>>)), Alt(<<Lit(<<"p", "e",
              "r", "m", "i", "s", "s", "i", "o", "n">>), Lit(<<"a", "p", "p", "r", "o", "v", "a",
              "l">>), Lit(<<"a", "u", "t", "h", "o", "r", "i", "z", "a", "t", "i", "o", "n">>)>>),
              WordBoundary>>),
            \* \bcan\s+(you|i)\s+please\b
            Cat(<<WordBoundary, Lit(<<"c", "a", "n">>), Plus(In(SpaceChars)), Alt(<<Lit(<<"y", "o",
              "u">>), Lit(<<"i">>)>>), Plus(In(SpaceChars)), Lit(<<"p", "l", "e", "a", "s", "e">>),
              WordBoundary>>),
            \* \bwould\s+(you|it)\s+be\s+possible\b
            Cat(<<WordBoundary, Lit(<<"w", "o", "u", "l", "d">>), Plus(In(SpaceChars)),
              Alt(<<Lit(<<"y", "o", "u">>), Lit(<<"i", "t">>)>>), Plus(In(SpaceChars)), Lit(<<"b",
              "e">>), Plus(In(SpaceChars)), Lit(<<"p", "o", "s", "s", "i", "b", "l", "e">>),
              WordBoundary>>),
            \* \bi\s+hope\s+(you|the\s+court)\s+will\b
            Cat(<<WordBoundary, Lit(<<"i">>), Plus(In(SpaceChars)), Lit(<<"h", "o", "p", "e">>),
              Plus(In(SpaceChars)), Alt(<<Lit(<<"y", "o", "u">>), Cat(<<Lit(<<"t", "h", "e">>),
              Plus(In(SpaceChars)), Lit(<<"c", "o", "u", "r", "t">>)>>)>>), Plus(In(SpaceChars)),
              Lit(<<"w", "i", "l", "l">>), WordBoundary>>),
            \* \bif\s+(you|the\s+court)\s+(would|could|might)\b
            Cat(<<WordBoundary, Lit(<<"i", "f">>), Plus(In(SpaceChars)), Alt(<<Lit(<<"y", "o",
              "u">>), Cat(<<Lit(<<"t", "h", "e">>), Plus(In(SpaceChars)), Lit(<<"c", "o", "u", "r",
              "t">>)>>)>>), Plus(In(SpaceChars)), Alt(<<Lit(<<"w", "o", "u", "l", "d">>), Lit(<<"c",
              "o", "u", "l", "d">>), Lit(<<"m", "i", "g", "h", "t">>)>>), WordBoundary>>) >>],
      [category |-> "victim_language",
       patterns |-> <<
            \* \bi\s+can'?t\s+(afford|pay|handle)\b
            Cat(<<WordBoundary, Lit(<<"i">>), Plus(In(SpaceChars)), Lit(<<"c", "a", "n">>),
              Opt(Lit(<<"'">>)), Lit(<<"t">>), Plus(In(SpaceChars)), Alt(<<Lit(<<"a", "f", "f", "o",
              "r", "d">>), Lit(<<"p", "a", "y">>), Lit(<<"h", "a", "n", "d", "l", "e">>)>>),
              WordBoundary>>),
            \* \bi\s+don'?t\s+have\s+(money|resources|means)\b
            Cat(<<WordBoundary, Lit(<<"i">>), Plus(In(SpaceChars)), Lit(<<"d", "o", "n">>),
              Opt(Lit(<<"'">>)), Lit(<<"t">>), Plus(In(SpaceChars)), Lit(<<"h", "a", "v", "e">>),
              Plus(In(SpaceChars)), Alt(<<Lit(<<"m", "o", "n", "e", "y">>), Lit(<<"r", "e", "s", "o",
              "u", "r", "c", "e", "s">>), Lit(<<"m", "e", "a", "n", "s">>)>>), WordBoundary>>),
            \* \bi\s+am\s+(poor|indigent|unable)\b
            Cat(<<WordBoundary, Lit(<<"i">>), Plus(In(SpaceChars)), Lit(<<"a", "m">>),
              Plus(In(SpaceChars)), Alt(<<Lit(<<"p", "o", "o", "r">>), Lit(<<"i", "n", "d", "i", "g",
              "e", "n", "t">>), Lit(<<"u", "n", "a", "b", "l", "e">>)>>), WordBoundary>>),
            \* \bthis\s+is\s+(unfair|unjust)\s+to\s+me\b
            Cat(<<WordBoundary, Lit(<<"t", "h", "i", "s">>), Plus(In(SpaceChars)), Lit(<<"i", "s">>),
              Plus(In(SpaceChars)), Cat(<<Lit(<<"u", "n">>), Alt(<<Lit(<<"f", "a", "i", "r">>),
              Lit(<<"j", "u", "s", "t">>)>>)>>), Plus(In(SpaceChars)), Lit(<<"t", "o">>),
              Plus(In(SpaceChars)), Lit(<<"m", "e">>), WordBoundary>>),
            \* \bwhy\s+is\s+this\s+happening\s+to\s+me\b
            Cat(<<WordBoundary, Lit(<<"w", "h", "y">>), Plus(In(SpaceChars)), Lit(<<"i", "s">>),
              Plus(In(SpaceChars)), Lit(<<"t", "h", "i", "s">>), Plus(In(SpaceChars)), Lit(<<"h", "a",
              "p", "p", "e", "n", "i", "n", "g">>), Plus(In(SpaceChars)), Lit(<<"t", "o">>),
              Plus(In(SpaceChars)), Lit(<<"m", "e">>), WordBoundary>>) >>],
      [category |-> "corporate_fiction_acceptance",
       patterns |-> <<
            \* \bmy\s+(social\s+security\s+number|ssn)\s+is\b
            Cat(<<WordBoundary, Lit(<<"m", "y">>), Plus(In(SpaceChars)), Cat(<<Lit(<<"s">>),
              Alt(<<Cat(<<Lit(<<"o", "c", "i", "a", "l">>), Plus(In(SpaceChars)), Lit(<<"s", "e", "c",
              "u", "r", "i", "t", "y">>), Plus(In(SpaceChars)), Lit(<<"n", "u", "m", "b", "e",
              "r">>)>>), Lit(<<"s", "n">>)>>)>>), Plus(In(SpaceChars)), Lit(<<"i", "s">>),
              WordBoundary>>),
            \* \bi\s+am\s+a\s+(us\s+)?(citizen|resident)\b
            Cat(<<WordBoundary, Lit(<<"i">>), Plus(In(SpaceChars)), Lit(<<"a", "m">>),
              Plus(In(SpaceChars)), Lit(<<"a">>), Plus(In(SpaceChars)), Opt(Cat(<<Lit(<<"u", "s">>),
              Plus(In(SpaceChars))>>)), Alt(<<Lit(<<"c", "i", "t", "i", "z", "e", "n">>), Lit(<<"r",
              "e", "s", "i", "d", "e", "n", "t">>)>>), WordBoundary>>),
            \* \bunder\s+penalty\s+of\s+perjury\b
            Cat(<<WordBoundary, Lit(<<"u", "n", "d", "e", "r">>), Plus(In(SpaceChars)), Lit(<<"p",
              "e", "n", "a", "l", "t", "y">>), Plus(In(SpaceChars)), Lit(<<"o", "f">>),
              Plus(In(SpaceChars)), Lit(<<"p", "e", "r", "j", "u", "r", "y">>), WordBoundary>>),
            \* \bi\s+(understand|acknowledge)\s+that\s+i\s+am\s+required\b
            Cat(<<WordBoundary, Lit(<<"i">>), Plus(In(SpaceChars)), Alt(<<Lit(<<"u", "n", "d", "e",
              "r", "s", "t", "a", "n", "d">>), Lit(<<"a", "c", "k", "n", "o", "w", "l", "e", "d", "g",
              "e">>)>>), Plus(In(SpaceChars)), Lit(<<"t", "h", "a", "t">>), Plus(In(SpaceChars)),
              Lit(<<"i">>), Plus(In(SpaceChars)), Lit(<<"a", "m">>), Plus(In(SpaceChars)), Lit(<<"r",
              "e", "q", "u", "i", "r", "e", "d">>), WordBoundary>>),
            \* \bi\s+consent\s+to\s+(jurisdiction|this\s+court)\b
            Cat(<<WordBoundary, Lit(<<"i">>), Plus(In(SpaceChars)), Lit(<<"c", "o", "n", "s", "e",
              "n", "t">>), Plus(In(SpaceChars)), Lit(<<"t", "o">>), Plus(In(SpaceChars)),
              Alt(<<Lit(<<"j", "u", "r", "i", "s", "d", "i", "c", "t", "i", "o", "n">>),
              Cat(<<Lit(<<"t", "h", "i", "s">>), Plus(In(SpaceChars)), Lit(<<"c", "o", "u", "r",
              "t">>)>>)>>), WordBoundary>>) >>]
    >>

\* lines 100-140: self.sovereign_patterns
sovereign_patterns ==
    <<
      [category |-> "lawful_standing",
       patterns |-> <<
            \* \bi\s+am\s+a\s+(living\s+)?(man|woman)\b
            Cat(<<WordBoundary, Lit(<<"i">>), Plus(In(SpaceChars)), Lit(<<"a", "m">>),
              Plus(In(SpaceChars)), Lit(<<"a">>), Plus(In(SpaceChars)), Opt(Cat(<<Lit(<<"l", "i", "v",
              "i", "n", "g">>), Plus(In(SpaceChars))>>)), Alt(<<Lit(<<"m", "a", "n">>), Lit(<<"w", "o",
              "m", "a", "n">>)>>), WordBoundary>>),
            \* \bacting\s+in\s+my\s+private\s+capacity\b
            Cat(<<WordBoundary, Lit(<<"a", "c", "t", "i", "n", "g">>), Plus(In(SpaceChars)),
              Lit(<<"i", "n">>), Plus(In(SpaceChars)), Lit(<<"m", "y">>), Plus(In(SpaceChars)),
              Lit(<<"p", "r", "i", "v", "a", "t", "e">>), Plus(In(SpaceChars)), Lit(<<"c", "a", "p",
              "a", "c", "i", "t", "y">>), WordBoundary>>),
            \* \bnot\s+acting\s+as\s+(agent|representative|trustee)\b
            Cat(<<WordBoundary, Lit(<<"n", "o", "t">>), Plus(In(SpaceChars)), Lit(<<"a", "c", "t",
              "i", "n", "g">>), Plus(In(SpaceChars)), Lit(<<"a", "s">>), Plus(In(SpaceChars)),
              Alt(<<Lit(<<"a", "g", "e", "n", "t">>), Lit(<<"r", "e", "p", "r", "e", "s", "e", "n",
              "t", "a", "t", "i", "v", "e">>), Lit(<<"t", "r", "u", "s", "t", "e", "e">>)>>),
              WordBoundary>>),
            \* \bby\s+special\s+appearance\s+only\b
            Cat(<<WordBoundary, Lit(<<"b", "y">>), Plus(In(SpaceChars)), Lit(<<"s", "p", "e", "c",
              "i", "a", "l">>), Plus(In(SpaceChars)), Lit(<<"a", "p", "p", "e", "a", "r", "a", "n",
              "c", "e">>), Plus(In(SpaceChars)), Lit(<<"o", "n", "l", "y">>), WordBoundary>>),
            \* \breserving\s+all\s+(rights|claims)\b
            Cat(<<WordBoundary, Lit(<<"r", "e", "s", "e", "r", "v", "i", "n", "g">>),
              Plus(In(SpaceChars)), Lit(<<"a", "l", "l">>), Plus(In(SpaceChars)), Alt(<<Lit(<<"r", "i",
              "g", "h", "t", "s">>), Lit(<<"c", "l", "a", "i", "m", "s">>)>>), WordBoundary>>) >>],
      [category |-> "authority_challenges",
       patterns |-> <<
            \* \bwhat\s+is\s+(your\s+)?authority\s+for\b
            Cat(<<WordBoundary, Lit(<<"w", "h", "a", "t">>), Plus(In(SpaceChars)), Lit(<<"i", "s">>),
              Plus(In(SpaceChars)), Opt(Cat(<<Lit(<<"y", "o", "u", "r">>), Plus(In(SpaceChars))>>)),
              Lit(<<"a", "u", "t", "h", "o", "r", "i", "t", "y">>), Plus(In(SpaceChars)), Lit(<<"f",
              "o", "r">>), WordBoundary>>),
            \* \bprove\s+(your\s+)?(jurisdiction|authority|standing)\b
            Cat(<<WordBoundary, Lit(<<"p", "r", "o", "v", "e">>), Plus(In(SpaceChars)),
              Opt(Cat(<<Lit(<<"y", "o", "u", "r">>), Plus(In(SpaceChars))>>)), Alt(<<Lit(<<"j", "u",
              "r", "i", "s", "d", "i", "c", "t", "i", "o", "n">>), Lit(<<"a", "u", "t", "h", "o", "r",
              "i", "t", "y">>), Lit(<<"s", "t", "a", "n", "d", "i", "n", "g">>)>>), WordBoundary>>),
            \* \bshow\s+me\s+the\s+(law|statute|regulation)\b
            Cat(<<WordBoundary, Lit(<<"s", "h", "o", "w">>), Plus(In(SpaceChars)), Lit(<<"m", "e">>),
              Plus(In(SpaceChars)), Lit(<<"t", "h", "e">>), Plus(In(SpaceChars)), Alt(<<Lit(<<"l", "a",
              "w">>), Lit(<<"s", "t", "a", "t", "u", "t", "e">>), Lit(<<"r", "e", "g", "u", "l", "a",
              "t", "i", "o", "n">>)>>), WordBoundary>>),
            \* \bwhere\s+is\s+the\s+(injured\s+party|victim)\b
            Cat(<<WordBoundary, Lit(<<"w", "h", "e", "r", "e">>), Plus(In(SpaceChars)), Lit(<<"i",
              "s">>), Plus(In(SpaceChars)), Lit(<<"t", "h", "e">>), Plus(In(SpaceChars)),
              Alt(<<Cat(<<Lit(<<"i", "n", "j", "u", "r", "e", "d">>), Plus(In(SpaceChars)), Lit(<<"p",
              "a", "r", "t", "y">>)>>), Lit(<<"v", "i", "c", "t", "i", "m">>)>>), WordBoundary>>),
            \* \bwhat\s+is\s+the\s+nature\s+of\s+the\s+(claim|complaint)\b
            Cat(<<WordBoundary, Lit(<<"w", "h", "a", "t">>), Plus(In(SpaceChars)), Lit(<<"i", "s">>),
              Plus(In(SpaceChars)), Lit(<<"t", "h", "e">>), Plus(In(SpaceChars)), Lit(<<"n", "a", "t",
              "u", "r", "e">>), Plus(In(SpaceChars)), Lit(<<"o", "f">>), Plus(In(SpaceChars)),
              Lit(<<"t", "h", "e">>), Plus(In(SpaceChars)), Cat(<<Lit(<<"c">>), Alt(<<Lit(<<"l", "a",
              "i", "m">>), Lit(<<"o", "m", "p", "l", "a", "i", "n", "t">>)>>)>>), WordBoundary>>) >>],
      [category |-> "constitutional_assertions",
       patterns |-> <<
            \* \bconstitutional\s+(right|protection|guarantee)\b
            Cat(<<WordBoundary, Lit(<<"c", "o", "n", "s", "t", "i", "t", "u", "t", "i", "o", "n",
              "a", "l">>), Plus(In(SpaceChars)), Alt(<<Lit(<<"r", "i", "g", "h", "t">>), Lit(<<"p",
              "r", "o", "t", "e", "c", "t", "i", "o", "n">>), Lit(<<"g", "u", "a", "r", "a", "n", "t",
              "e", "e">>)>>), WordBoundary>>),
            \* \bfourth\s+amendment\s+(right|protection)\b
            Cat(<<WordBoundary, Lit(<<"f", "o", "u", "r", "t", "h">>), Plus(In(SpaceChars)),
              Lit(<<"a", "m", "e", "n", "d", "m", "e", "n", "t">>), Plus(In(SpaceChars)),
              Alt(<<Lit(<<"r", "i", "g", "h", "t">>), Lit(<<"p", "r", "o", "t", "e", "c", "t", "i",
              "o", "n">>)>>), WordBoundary>>),
            \* \bfifth\s+amendment\s+(right|protection)\b
            Cat(<<WordBoundary, Lit(<<"f", "i", "f", "t", "h">>), Plus(In(SpaceChars)), Lit(<<"a",
              "m", "e", "n", "d", "m", "e", "n", "t">>), Plus(In(SpaceChars)), Alt(<<Lit(<<"r", "i",
              "g", "h", "t">>), Lit(<<"p", "r", "o", "t", "e", "c", "t", "i", "o", "n">>)>>),
              WordBoundary>>),
            \* \bdue\s+process\s+(right|violation|requirement)\b
            Cat(<<WordBoundary, Lit(<<"d", "u", "e">>), Plus(In(SpaceChars)), Lit(<<"p", "r", "o",
              "c", "e", "s", "s">>), Plus(In(SpaceChars)), Alt(<<Lit(<<"r", "i", "g", "h", "t">>),
              Lit(<<"v", "i", "o", "l", "a", "t", "i", "o", "n">>), Lit(<<"r", "e", "q", "u", "i", "r",
              "e", "m", "e", "n", "t">>)>>), WordBoundary>>),
            \* \bequal\s+protection\s+(under\s+)?law\b
            Cat(<<WordBoundary, Lit(<<"e", "q", "u", "a", "l">>), Plus(In(SpaceChars)), Lit(<<"p",
              "r", "o", "t", "e", "c", "t", "i", "o", "n">>), Plus(In(SpaceChars)),
              Opt(Cat(<<Lit(<<"u", "n", "d", "e", "r">>), Plus(In(SpaceChars))>>)), Lit(<<"l", "a",
              "w">>), WordBoundary>>) >>],
      [category |-> "commercial_awareness",
       patterns |-> <<
            \* \bthis\s+appears\s+to\s+be\s+a\s+commercial\s+(matter|transaction)\b
            Cat(<<WordBoundary, Lit(<<"t", "h", "i", "s">>), Plus(In(SpaceChars)), Lit(<<"a", "p",
              "p", "e", "a", "r", "s">>), Plus(In(SpaceChars)), Lit(<<"t", "o">>),
              Plus(In(SpaceChars)), Lit(<<"b", "e">>), Plus(In(SpaceChars)), Lit(<<"a">>),
              Plus(In(SpaceChars)), Lit(<<"c", "o", "m", "m", "e", "r", "c", "i", "a", "l">>),
              Plus(In(SpaceChars)), Alt(<<Lit(<<"m", "a", "t", "t", "e", "r">>), Lit(<<"t", "r", "a",
              "n", "s", "a", "c", "t", "i", "o", "n">>)>>), WordBoundary>>),
            \* \bi\s+do\s+not\s+consent\s+to\s+(commercial\s+)?jurisdiction\b
            Cat(<<WordBoundary, Lit(<<"i">>), Plus(In(SpaceChars)), Lit(<<"d", "o">>),
              Plus(In(SpaceChars)), Lit(<<"n", "o", "t">>), Plus(In(SpaceChars)), Lit(<<"c", "o", "n",
              "s", "e", "n", "t">>), Plus(In(SpaceChars)), Lit(<<"t", "o">>), Plus(In(SpaceChars)),
              Opt(Cat(<<Lit(<<"c", "o", "m", "m", "e", "r", "c", "i", "a", "l">>),
              Plus(In(SpaceChars))>>)), Lit(<<"j", "u", "r", "i", "s", "d", "i", "c", "t", "i", "o",
              "n">>), WordBoundary>>),
            \* \bno\s+contract\s+(exists|was\s+formed)\b
            Cat(<<WordBoundary, Lit(<<"n", "o">>), Plus(In(SpaceChars)), Lit(<<"c", "o", "n", "t",
              "r", "a", "c", "t">>), Plus(In(SpaceChars)), Alt(<<Lit(<<"e", "x", "i", "s", "t", "s">>),
              Cat(<<Lit(<<"w", "a", "s">>), Plus(In(SpaceChars)), Lit(<<"f", "o", "r", "m", "e",
              "d">>)>>)>>), WordBoundary>>),
            \* \bwhere\s+is\s+the\s+(consideration|meeting\s+of\s+minds)\b
            Cat(<<WordBoundary, Lit(<<"w", "h", "e", "r", "e">>), Plus(In(SpaceChars)), Lit(<<"i",
              "s">>), Plus(In(SpaceChars)), Lit(<<"t", "h", "e">>), Plus(In(SpaceChars)),
              Alt(<<Lit(<<"c", "o", "n", "s", "i", "d", "e", "r", "a", "t", "i", "o", "n">>),
              Cat(<<Lit(<<"m", "e", "e", "t", "i", "n", "g">>), Plus(In(SpaceChars)), Lit(<<"o",
              "f">>), Plus(In(SpaceChars)), Lit(<<"m", "i", "n", "d", "s">>)>>)>>), WordBoundary>>),
            \* \bucc\s+(article\s+)?\d+\s+(applies|governs)\b
            Cat(<<WordBoundary, Lit(<<"u", "c", "c">>), Plus(In(SpaceChars)), Opt(Cat(<<Lit(<<"a",
              "r", "t", "i", "c", "l", "e">>), Plus(In(SpaceChars))>>)), Plus(In(DigitChars)),
              Plus(In(SpaceChars)), Alt(<<Lit(<<"a", "p", "p", "l", "i", "e", "s">>), Lit(<<"g", "o",
              "v", "e", "r", "n", "s">>)>>), WordBoundary>>) >>],
      [category |-> "remedy_focused",
       patterns |-> <<
            \* \bi\s+(demand|require|claim)\s+(lawful\s+)?remedy\b
            Cat(<<WordBoundary, Lit(<<"i">>), Plus(In(SpaceChars)), Alt(<<Lit(<<"d", "e", "m", "a",
              "n", "d">>), Lit(<<"r", "e", "q", "u", "i", "r", "e">>), Lit(<<"c", "l", "a", "i",
              "m">>)>>), Plus(In(SpaceChars)), Opt(Cat(<<Lit(<<"l", "a", "w", "f", "u", "l">>),
              Plus(In(SpaceChars))>>)), Lit(<<"r", "e", "m", "e", "d", "y">>), WordBoundary>>),
            \* \bmake\s+me\s+whole\b
            Cat(<<WordBoundary, Lit(<<"m", "a", "k", "e">>), Plus(In(SpaceChars)), Lit(<<"m", "e">>),
              Plus(In(SpaceChars)), Lit(<<"w", "h", "o", "l", "e">>), WordBoundary>>),
            \* \bcompensation\s+for\s+(damages|harm|injury)\b
            Cat(<<WordBoundary, Lit(<<"c", "o", "m", "p", "e", "n", "s", "a", "t", "i", "o", "n">>),
              Plus(In(SpaceChars)), Lit(<<"f", "o", "r">>), Plus(In(SpaceChars)), Alt(<<Lit(<<"d", "a",
              "m", "a", "g", "e", "s">>), Lit(<<"h", "a", "r", "m">>), Lit(<<"i", "n", "j", "u", "r",
              "y">>)>>), WordBoundary>>),
            \* \brestitution\s+(is\s+)?(required|demanded)\b
            Cat(<<WordBoundary, Lit(<<"r", "e", "s", "t", "i", "t", "u", "t", "i", "o", "n">>),
              Plus(In(SpaceChars)), Opt(Cat(<<Lit(<<"i", "s">>), Plus(In(SpaceChars))>>)),
              Alt(<<Lit(<<"r", "e", "q", "u", "i", "r", "e", "d">>), Lit(<<"d", "e", "m", "a", "n",
              "d", "e", "d">>)>>), WordBoundary>>),
            \* \bspecific\s+performance\s+(is\s+)?(required|demanded)\b
            Cat(<<WordBoundary, Lit(<<"s", "p", "e", "c", "i", "f", "i", "c">>),
              Plus(In(SpaceChars)), Lit(<<"p", "e", "r", "f", "o", "r", "m", "a", "n", "c", "e">>),
              Plus(In(SpaceChars)), Opt(Cat(<<Lit(<<"i", "s">>), Plus(In(SpaceChars))>>)),
              Alt(<<Lit(<<"r", "e", "q", "u", "i", "r", "e", "d">>), Lit(<<"d", "e", "m", "a", "n",
              "d", "e", "d">>)>>), WordBoundary>>) >>]
    >>

\* lines 143-159: self.remedy_patterns
remedy_patterns ==
    <<
      [category |-> "lawful_remedy_indicators",
       patterns |-> <<
            \* \bspecific\s+performance\b
            Cat(<<WordBoundary, Lit(<<"s", "p", "e", "c", "i", "f", "i", "c">>),
              Plus(In(SpaceChars)), Lit(<<"p", "e", "r", "f", "o", "r", "m", "a", "n", "c", "e">>),
              WordBoundary>>),
            \* \brestitution\b
            Cat(<<WordBoundary, Lit(<<"r", "e", "s", "t", "i", "t", "u", "t", "i", "o", "n">>),
              WordBoundary>>),
            \* \bmake\s+whole\b
            Cat(<<WordBoundary, Lit(<<"m", "a", "k", "e">>), Plus(In(SpaceChars)), Lit(<<"w", "h",
              "o", "l", "e">>), WordBoundary>>),
            \* \bcompensation\s+for\s+(actual\s+)?(damages|harm)\b
            Cat(<<WordBoundary, Lit(<<"c", "o", "m", "p", "e", "n", "s", "a", "t", "i", "o", "n">>),
              Plus(In(SpaceChars)), Lit(<<"f", "o", "r">>), Plus(In(SpaceChars)), Opt(Cat(<<Lit(<<"a",
              "c", "t", "u", "a", "l">>), Plus(In(SpaceChars))>>)), Alt(<<Lit(<<"d", "a", "m", "a",
              "g", "e", "s">>), Lit(<<"h", "a", "r", "m">>)>>), WordBoundary>>),
            \* \binjunctive\s+relief\b
            Cat(<<WordBoundary, Lit(<<"i", "n", "j", "u", "n", "c", "t", "i", "v", "e">>),
              Plus(In(SpaceChars)), Lit(<<"r", "e", "l", "i", "e", "f">>), WordBoundary>>) >>],
      [category |-> "unlawful_remedy_indicators",
       patterns |-> <<
            \* \bpunitive\s+damages\b
            Cat(<<WordBoundary, Lit(<<"p", "u", "n", "i", "t", "i", "v", "e">>),
              Plus(In(SpaceChars)), Lit(<<"d", "a", "m", "a", "g", "e", "s">>), WordBoundary>>),
            \* \bpunishment\b
            Cat(<<WordBoundary, Lit(<<"p", "u", "n", "i", "s", "h", "m", "e", "n", "t">>),
              WordBoundary>>),
            \* \bfines?\s+and\s+penalties\b
            Cat(<<WordBoundary, Lit(<<"f", "i", "n", "e">>), Opt(Lit(<<"s">>)), Plus(In(SpaceChars)),
              Lit(<<"a", "n", "d">>), Plus(In(SpaceChars)), Lit(<<"p", "e", "n", "a", "l", "t", "i",
              "e", "s">>), WordBoundary>>),
            \* \bimprisonment\b
            Cat(<<WordBoundary, Lit(<<"i", "m", "p", "r", "i", "s", "o", "n", "m", "e", "n", "t">>),
              WordBoundary>>),
            \* \bincarceration\b
            Cat(<<WordBoundary, Lit(<<"i", "n", "c", "a", "r", "c", "e", "r", "a", "t", "i", "o",
              "n">>), WordBoundary>>) >>]
    >>

\* lines 162-178: self.autonomy_patterns
autonomy_patterns ==
    <<
      [category |-> "self_determination",
       patterns |-> <<
            \* \bi\s+(choose|elect|decide)\s+to\b
            Cat(<<WordBoundary, Lit(<<"i">>), Plus(In(SpaceChars)), Alt(<<Lit(<<"c", "h", "o", "o",
              "s", "e">>), Lit(<<"e", "l", "e", "c", "t">>), Lit(<<"d", "e", "c", "i", "d", "e">>)>>),
              Plus(In(SpaceChars)), Lit(<<"t", "o">>), WordBoundary>>),
            \* \bby\s+my\s+own\s+(choice|decision|will)\b
            Cat(<<WordBoundary, Lit(<<"b", "y">>), Plus(In(SpaceChars)), Lit(<<"m", "y">>),
              Plus(In(SpaceChars)), Lit(<<"o", "w", "n">>), Plus(In(SpaceChars)), Alt(<<Lit(<<"c", "h",
              "o", "i", "c", "e">>), Lit(<<"d", "e", "c", "i", "s", "i", "o", "n">>), Lit(<<"w", "i",
              "l", "l">>)>>), WordBoundary>>),
            \* \bacting\s+under\s+my\s+own\s+authority\b
            Cat(<<WordBoundary, Lit(<<"a", "c", "t", "i", "n", "g">>), Plus(In(SpaceChars)),
              Lit(<<"u", "n", "d", "e", "r">>), Plus(In(SpaceChars)), Lit(<<"m", "y">>),
              Plus(In(SpaceChars)), Lit(<<"o", "w", "n">>), Plus(In(SpaceChars)), Lit(<<"a", "u", "t",
              "h", "o", "r", "i", "t", "y">>), WordBoundary>>),
            \* \bself[\-\s]?determining\b
            Cat(<<WordBoundary, Lit(<<"s", "e", "l", "f">>), Opt(In({"-"} \cup SpaceChars)),
              Lit(<<"d", "e", "t", "e", "r", "m", "i", "n", "i", "n", "g">>), WordBoundary>>),
            \* \bautonomous\s+(action|decision|choice)\b
            Cat(<<WordBoundary, Lit(<<"a", "u", "t", "o", "n", "o", "m", "o", "u", "s">>),
              Plus(In(SpaceChars)), Alt(<<Lit(<<"a", "c", "t", "i", "o", "n">>), Lit(<<"d", "e", "c",
              "i", "s", "i", "o", "n">>), Lit(<<"c", "h", "o", "i", "c", "e">>)>>), WordBoundary>>) >>],
      [category |-> "non_consent",
       patterns |-> <<
            \* \bi\s+do\s+not\s+consent\b
            Cat(<<WordBoundary, Lit(<<"i">>), Plus(In(SpaceChars)), Lit(<<"d", "o">>),
              Plus(In(SpaceChars)), Lit(<<"n", "o", "t">>), Plus(In(SpaceChars)), Lit(<<"c", "o", "n",
              "s", "e", "n", "t">>), WordBoundary>>),
            \* \bwithout\s+my\s+consent\b
            Cat(<<WordBoundary, Lit(<<"w", "i", "t", "h", "o", "u", "t">>), Plus(In(SpaceChars)),
              Lit(<<"m", "y">>), Plus(In(SpaceChars)), Lit(<<"c", "o", "n", "s", "e", "n", "t">>),
              WordBoundary>>),
            \* \bno\s+consent\s+(given|granted|implied)\b
            Cat(<<WordBoundary, Lit(<<"n", "o">>), Plus(In(SpaceChars)), Lit(<<"c", "o", "n", "s",
              "e", "n", "t">>), Plus(In(SpaceChars)), Alt(<<Lit(<<"g", "i", "v", "e", "n">>),
              Lit(<<"g", "r", "a", "n", "t", "e", "d">>), Lit(<<"i", "m", "p", "l", "i", "e",
              "d">>)>>), WordBoundary>>),
            \* \bunder\s+duress\b
            Cat(<<WordBoundary, Lit(<<"u", "n", "d", "e", "r">>), Plus(In(SpaceChars)), Lit(<<"d",
              "u", "r", "e", "s", "s">>), WordBoundary>>),
            \* \bcoercion\s+(is\s+)?present\b
            Cat(<<WordBoundary, Lit(<<"c", "o", "e", "r", "c", "i", "o", "n">>),
              Plus(In(SpaceChars)), Opt(Cat(<<Lit(<<"i", "s">>), Plus(In(SpaceChars))>>)), Lit(<<"p",
              "r", "e", "s", "e", "n", "t">>), WordBoundary>>) >>]
    >>

\* The patterns of one category of a table
CategoryPatterns(table, category) ==
    (CHOOSE c \in SeqToSet(table) : c.category = category).patterns

\* The matches of the patterns k.. of one category, pattern by pattern.  The
\* pattern of a match is kept as its place in the list of its category.
RECURSIVE MatchesOfPatterns(_, _, _, _)
MatchesOfPatterns(category, patterns, k, t) ==
    IF k > Len(patterns) THEN <<>>
    ELSE LET spans == FindIter(patterns[k], t)
         IN  [h \in 1..Len(spans) |->
                 [category |-> category, pattern |-> k,
                  match |-> Group(t, spans[h]), position |-> spans[h]]]
             \o MatchesOfPatterns(category, patterns, k + 1, t)

\* The matches of a table, category by category
RECURSIVE MatchesOfTable(_, _, _)
MatchesOfTable(table, c, t) ==
    IF c > Len(table) THEN <<>>
    ELSE MatchesOfPatterns(table[c].category, table[c].patterns, 1, t)
         \o MatchesOfTable(table, c + 1, t)

\* _get_servile_severity lines 353-361
_get_servile_severity(category) ==
    CASE category = "submission_language" -> Rat(3, 10)
      [] category = "dependency_language" -> Rat(4, 10)
      [] category = "victim_language" -> Rat(5, 10)
      [] category = "corporate_fiction_acceptance" -> Rat(6, 10)
      [] OTHER -> Rat(3, 10)

\* _get_sovereign_strength lines 363-372
_get_sovereign_strength(category) ==
    CASE category = "lawful_standing" -> Rat(4, 10)
      [] category = "authority_challenges" -> Rat(5, 10)
      [] category = "constitutional_assertions" -> Rat(4, 10)
      [] category = "commercial_awareness" -> Rat(3, 10)
      [] category = "remedy_focused" -> Rat(5, 10)
      [] OTHER -> Rat(3, 10)

\* _detect_servile_language lines 245-262 (the suggestion text of a flag is
\* left out)
_detect_servile_language(t) ==
    LET m == MatchesOfTable(servile_patterns, 1, t)
    IN  [h \in 1..Len(m) |->
            [category |-> m[h].category, pattern |-> m[h].pattern,
             match |-> m[h].match, position |-> m[h].position,
             severity |-> _get_servile_severity(m[h].category)]]

\* _detect_sovereign_language lines 264-281 (the explanation text of an
\* indicator is left out)
_detect_sovereign_language(t) ==
    LET m == MatchesOfTable(sovereign_patterns, 1, t)
    IN  [h \in 1..Len(m) |->
            [category |-> m[h].category, pattern |-> m[h].pattern,
             match |-> m[h].match, position |-> m[h].position,
             strength |-> _get_sovereign_strength(m[h].category)]]

\* _get_remedy_analysis lines 396-405: the sentence and the two counts in it
_get_remedy_analysis(score, lawful_count, unlawful_count) ==
    <<(IF RatLeq(Rat(8, 10), score) THEN "Strong lawful remedy focus"
       ELSE IF RatLeq(Rat(6, 10), score) THEN "Good remedy alignment"
       ELSE IF RatLeq(Rat(4, 10), score) THEN "Mixed remedy approach"
       ELSE "Concerning unlawful remedy focus"),
      lawful_count, unlawful_count>>

Matched(m) == [h \in 1..Len(m) |-> m[h].match]

\* _analyze_remedy_alignment lines 283-311
_analyze_remedy_alignment(t) ==
    LET lawful_matches ==
            Matched(MatchesOfPatterns("lawful_remedy_indicators",
                        CategoryPatterns(remedy_patterns, "lawful_remedy_indicators"), 1, t))
        unlawful_matches ==
            Matched(MatchesOfPatterns("unlawful_remedy_indicators",
                        CategoryPatterns(remedy_patterns, "unlawful_remedy_indicators"), 1, t))
        lawful_count == Len(lawful_matches)
        unlawful_count == Len(unlawful_matches)
        total_count == lawful_count + unlawful_count
        score == IF total_count = 0 THEN Half ELSE Rat(lawful_count, total_count)
    IN  [score |-> score,
         lawful_indicators |-> lawful_matches,
         unlawful_indicators |-> unlawful_matches,
         analysis |-> _get_remedy_analysis(score, lawful_count, unlawful_count)]

\* len(re.findall(pattern, t)) summed over the patterns of a category
CountOf(table, category, t) ==
    Len(MatchesOfPatterns(category, CategoryPatterns(table, category), 1, t))

\* _calculate_autonomy_score lines 313-335
_calculate_autonomy_score(t) ==
    LET autonomy_matches ==
            RatAdd(Rat(CountOf(autonomy_patterns, "self_determination", t), 1),
                   RatMul(Rat(CountOf(autonomy_patterns, "non_consent", t), 1), Rat(8, 10)))
        dependency_matches ==
            Rat(CountOf(servile_patterns, "dependency_language", t), 1)
        total_matches == RatAdd(autonomy_matches, dependency_matches)
    IN  IF total_matches = Zero THEN Half
        ELSE RatMin(One, RatDiv(autonomy_matches,
                                RatAdd(autonomy_matches, RatMul(dependency_matches, Rat(2, 1)))))

RECURSIVE SumSeverity(_)
SumSeverity(flags) ==
    IF flags = <<>> THEN Zero ELSE RatAdd(flags[1].severity, SumSeverity(Tail(flags)))

RECURSIVE SumStrength(_)
SumStrength(indicators) ==
    IF indicators = <<>> THEN Zero
    ELSE RatAdd(indicators[1].strength, SumStrength(Tail(indicators)))

_calculate_language_score_unclamped(servile_flags, sovereign_indicators, text_length) ==
    LET scale == RatMax(Rat(text_length, 100), One)
    IN  RatAdd(RatSub(Half, RatDiv(SumSeverity(servile_flags), scale)),
               RatDiv(SumStrength(sovereign_indicators), scale))

\* _calculate_language_score lines 337-351
_calculate_language_score(servile_flags, sovereign_indicators, text_length) ==
    LET scale == RatMax(Rat(text_length, 100), One)
        servile_penalty == RatDiv(SumSeverity(servile_flags), scale)
        sovereign_bonus == RatDiv(SumStrength(sovereign_indicators), scale)
        score == RatAdd(RatSub(Half, servile_penalty), sovereign_bonus)
    IN  RatMax(Zero, RatMin(One, score))

\* lines 416-424: the suggestion of a category of servile language
CategorySuggestion(category) ==
    CASE category = "submission_language" ->
           <<"Replace submissive phrases with assertive statements of rights and standing">>
      [] category = "dependency_language" ->
           <<"Assert your inherent authority rather than seeking permission">>
      [] category = "victim_language" ->
           <<"Focus on lawful remedy and rights rather than personal circumstances">>
      [] category = "corporate_fiction_acceptance" ->
           <<"Clarify your standing as a living being, not a corporate fiction">>
      [] OTHER -> <<>>

RECURSIVE CategorySuggestions(_)
CategorySuggestions(order) ==
    IF order = <<>> THEN <<>>
    ELSE CategorySuggestion(order[1]) \o CategorySuggestions(Tail(order))

FlagCategories(servile_flags) == {servile_flags[h].category : h \in 1..Len(servile_flags)}

\* The orders in which a set of strings can be iterated
OrderingsOf(S) ==
    {f \in [1..Cardinality(S) -> S] : \A a, b \in 1..Cardinality(S) : a # b => f[a] # f[b]}

\* _generate_improvement_suggestions lines 407-440; order is the order in
\* which the set of categories (line 414) is iterated
_generate_improvement_suggestions(servile_flags, sovereign_indicators, remedy_alignment, autonomy_score, order) ==
    LET suggestions ==
            CategorySuggestions(order)
            \o (IF Len(sovereign_indicators) < 3
                THEN <<"Include more sovereign language patterns (authority challenges, constitutional assertions)">>
                ELSE <<>>)
            \o (IF RatLess(remedy_alignment.score, Rat(6, 10))
                THEN <<"Focus on lawful remedies (restitution, specific performance) rather than punitive measures">>
                ELSE <<>>)
            \o (IF RatLess(autonomy_score, Rat(6, 10))
                THEN <<"Emphasize self-determination and autonomous decision-making">>
                ELSE <<>>)
        all == IF suggestions = <<>>
               THEN <<"Consider incorporating more sovereign principles and lawful remedy focus">>
               ELSE suggestions
    IN  SubSeq(all, 1, Min(5, Len(all)))

_determine_sovereignty_level_high(score) ==
    IF RatLeq(Rat(8, 10), score) THEN "Sovereign"
    ELSE IF RatLeq(Half, score) THEN "Transitional"
    ELSE "Servile"

\* _determine_sovereignty_level lines 442-449
_determine_sovereignty_level(score) ==
    IF RatLeq(Rat(75, 100), score) THEN "Sovereign"
    ELSE IF RatLeq(Half, score) THEN "Transitional"
    ELSE "Servile"

EmptyDict == <<>>

\* lines 192-202: the metrics of a text that is empty or blank
BlankMetrics ==
    [overall_score |-> Half, language_score |-> Half, remedy_score |-> Half,
     autonomy_score |-> Half, servile_flags |-> <<>>, sovereign_indicators |-> <<>>,
     remedy_alignment |-> EmptyDict,
     improvement_suggestions |-> <<"No text provided for analysis">>,
     sovereignty_level |-> "Unknown"]

\* lines 220-243: the metrics, from the analyses and the language score
ScoredMetrics(servile_flags, sovereign_indicators, remedy_alignment, autonomy_score, language_score, order) ==
    TheOnly({ [overall_score |-> overall_score, language_score |-> language_score,
               remedy_score |-> remedy_alignment.score, autonomy_score |-> autonomy_score,
               servile_flags |-> servile_flags, sovereign_indicators |-> sovereign_indicators,
               remedy_alignment |-> remedy_alignment,
               improvement_suggestions |->
                   _generate_improvement_suggestions(servile_flags, sovereign_indicators,
                                                     remedy_alignment, autonomy_score, order),
               sovereignty_level |-> _determine_sovereignty_level(overall_score)]
              : overall_score \in
                  { RatAdd(RatAdd(RatMul(language_score, Rat(4, 10)),
                                  RatMul(remedy_alignment.score, Rat(3, 10))),
                           RatMul(autonomy_score, Rat(3, 10))) } })

\* lines 204-243: the metrics of any other text; each analysis is made once
\* on the lowered text, the language score takes the length of the text as
\* given
TextMetrics(t, order) ==
    TheOnly({ ScoredMetrics(servile_flags, sovereign_indicators, remedy_alignment, autonomy_score,
                            _calculate_language_score(servile_flags, sovereign_indicators, Len(t)),
                            order)
              : servile_flags \in {_detect_servile_language(Lower(t))},
                sovereign_indicators \in {_detect_sovereign_language(Lower(t))},
                remedy_alignment \in {_analyze_remedy_alignment(Lower(t))},
                autonomy_score \in {_calculate_autonomy_score(Lower(t))} })

score_text_unguarded(t, order) == TextMetrics(t, order)

\* score_text lines 180-243
score_text(t, order) ==
    IF t = <<>> \/ Strip(t) = <<>> THEN BlankMetrics ELSE TextMetrics(t, order)

\* Phrases of input texts, and the empty phrase
SpeechPhrases ==
    { <<"p", "l", "e", "a", "s", "e", " ", "h", "e", "l", "p", " ", "m", "e">>,
      <<"c", "a", "n", " ", "y", "o", "u", " ", "p", "l", "e", "a", "s", "e">>,
      <<"I", " ", "d", "o", " ", "n", "o", "t", " ", "c", "o", "n", "s", "e", "n", "t", " ", "t", "o", " ", "j", "u", "r", "i", "s", "d", "i", "c", "t", "i", "o", "n">>,
      <<"i", " ", "c", "h", "o", "o", "s", "e", " ", "t", "o">>,
      <<"r", "e", "s", "t", "i", "t", "u", "t", "i", "o", "n", " ", "i", "s", " ", "r", "e", "q", "u", "i", "r", "e", "d">>,
      <<"p", "u", "n", "i", "t", "i", "v", "e", " ", "d", "a", "m", "a", "g", "e", "s">>,
      <<"I", " ", "a", "m", " ", "a", " ", "l", "i", "v", "i", "n", "g", " ", "m", "a", "n">>,
      <<"t", "h", "e", " ", "u", "n", "d", "e", "r", "s", "i", "g", "n", "e", "d", " ", "s", "t", "a", "t", "e", "s", " ", "t", "h", "e", " ", "f", "o", "l", "l", "o", "w", "i", "n", "g", " ", "f", "a", "c", "t", "s", " ", "f", "o", "r", " ", "t", "h", "e", " ", "r", "e", "c", "o", "r", "d", " ", "o", "f", " ", "t", "h", "i", "s", " ", "m", "a", "t", "t", "e", "r", " ", "a", "n", "d", " ", "n", "o", "n", "e", " ", "o", "t", "h", "e", "r">>,
      <<>> }

SpeechTexts == {Join(w) : w \in UNION {[1..k -> SpeechPhrases] : k \in 0..MaxPhrases}}

\* A call score_text(text)
ScoreText ==
    \E order \in OrderingsOf(FlagCategories(_detect_servile_language(Lower(text)))) :
        Returns("score_text", score_text(text, order))

InitScorer == PureInit(SpeechTexts)
NextScorer == ScoreText
SpecScorer == InitScorer /\ [][NextScorer]_vars

IsBlank(t) == Strip(t) = <<>>

\* C18: for the empty text and for a text of whitespace only, score_text
\* returns the four scores 0.5, no servile flag, no sovereign indicator and
\* exactly one improvement suggestion.
C18_BlankTextNeutral ==
    (Called("score_text") /\ IsBlank(text))
    => /\ ret.value.overall_score = Half
       /\ ret.value.language_score = Half
       /\ ret.value.remedy_score = Half
       /\ ret.value.autonomy_score = Half
       /\ ret.value.servile_flags = <<>>
       /\ ret.value.sovereign_indicators = <<>>
       /\ Len(ret.value.improvement_suggestions) = 1

C18_Witness ==
    /\ Called("score_text")
    /\ text = <<" ">>
    /\ ret.value.overall_score = Half
    /\ ret.value.improvement_suggestions = <<"No text provided for analysis">>

\* The level the thresholds 0.75 and 0.5 give to a score
LevelOfScore(score) ==
    IF RatLeq(Rat(3, 4), score) THEN "Sovereign"
    ELSE IF RatLeq(Rat(1, 2), score) THEN "Transitional"
    ELSE "Servile"

InUnit(x) == RatLeq(Zero, x) /\ RatLeq(x, One)

Clamped(x) == IF RatLess(x, Zero) THEN Zero ELSE IF RatLess(One, x) THEN One ELSE x

RECURSIVE SumField(_, _)
SumField(records, severity) ==
    IF records = <<>> THEN Zero
    ELSE RatAdd(IF severity THEN records[1].severity ELSE records[1].strength,
                SumField(Tail(records), severity))

\* 0.5 minus the servile penalty plus the sovereign bonus, from the flags
\* and indicators returned: their weights summed, over max(len/100, 1)
ExpectedLanguage(value, length) ==
    LET scale == IF length > 100 THEN Rat(length, 100) ELSE One
    IN  Clamped(RatAdd(RatSub(Half, RatDiv(SumField(value.servile_flags, TRUE), scale)),
                       RatDiv(SumField(value.sovereign_indicators, FALSE), scale)))

\* lawful / (lawful + unlawful), from the matches returned, or 0.5
ExpectedRemedy(value) ==
    IF value.remedy_alignment = EmptyDict THEN Half
    ELSE LET lawful == Len(value.remedy_alignment.lawful_indicators)
             unlawful == Len(value.remedy_alignment.unlawful_indicators)
         IN  IF lawful + unlawful = 0 THEN Half ELSE Rat(lawful, lawful + unlawful)

\* (self_determination + 0.8 * non_consent) over that plus twice the
\* dependency matches, or 0.5 with no such match; in tenths
ExpectedAutonomy(t) ==
    LET own == 10 * CountOf(autonomy_patterns, "self_determination", Lower(t))
               + 8 * CountOf(autonomy_patterns, "non_consent", Lower(t))
        dependency == CountOf(servile_patterns, "dependency_language", Lower(t))
    IN  IF own = 0 /\ dependency = 0 THEN Half ELSE Rat(own, own + 20 * dependency)

\* C20: overall_score is 0.4 language + 0.3 remedy + 0.3 autonomy, the four
\* scores lie in [0, 1], and the three component scores are the ones their
\* formulas give.
C20_ScoreFormulas ==
    Called("score_text")
    => /\ RatMul(ret.value.overall_score, Rat(10, 1))
            = RatAdd(RatAdd(RatMul(ret.value.language_score, Rat(4, 1)),
                            RatMul(ret.value.remedy_score, Rat(3, 1))),
                     RatMul(ret.value.autonomy_score, Rat(3, 1)))
       /\ InUnit(ret.value.overall_score)
       /\ InUnit(ret.value.language_score)
       /\ InUnit(ret.value.remedy_score)
       /\ InUnit(ret.value.autonomy_score)
       /\ ret.value.language_score = ExpectedLanguage(ret.value, Len(text))
       /\ ret.value.remedy_score = ExpectedRemedy(ret.value)
       /\ ret.value.autonomy_score = ExpectedAutonomy(text)

C20_Witness ==
    /\ Called("score_text")
    /\ Len(text) > 100
    /\ Len(ret.value.servile_flags) = 1
    /\ Len(ret.value.remedy_alignment.unlawful_indicators) = 0
    /\ ret.value.autonomy_score = Zero
    /\ RatLess(Zero, ret.value.language_score)
    /\ RatLess(ret.value.language_score, Half)
    /\ RatLess(ret.value.overall_score, Half)

----------------------------------------------------------------------------
(* Exceptions: modules/exceptions.py *)

\* Python values handed to an exception as field_name / field_value: the
\* type, the truth value and str() of each
IntZero   == [kind |-> "int",  text |-> "0",     truthy |-> FALSE, raises |-> FALSE]
Int123    == [kind |-> "int",  text |-> "123",   truthy |-> TRUE,  raises |-> FALSE]
BoolFalse == [kind |-> "bool", text |-> "False", truthy |-> FALSE, raises |-> FALSE]
BoolTrue  == [kind |-> "bool", text |-> "True",  truthy |-> TRUE,  raises |-> FALSE]
ListEmpty == [kind |-> "list", text |-> "[]",    truthy |-> FALSE, raises |-> FALSE]
StrAge    == [kind |-> "str",  text |-> "age",   truthy |-> TRUE,  raises |-> FALSE]

FieldValues == {NoneV, IntZero, Int123, BoolFalse, BoolTrue, ListEmpty, StrE, StrX, StrAge}
FieldNames == {NoneV, StrE, StrX, StrAge}
Messages == {"Test error", ""}

\* A dict: the function from its keys to their values ({} is the function
\* with no key)
NoDetails == [key \in {} |-> None]
WithKey(dict, key, value) == [k \in DOMAIN dict \cup {key} |-> IF k = key THEN value ELSE dict[k]]

\* VeroBrixError.__init__ lines 13-25
VeroBrixError(message, error_code, details) ==
    [message |-> message, error_code |-> error_code,
     details |-> IF DOMAIN details # {} THEN details ELSE NoDetails]

\* ValidationError.__init__ lines 105-112
ValidationError(message, field_name, field_value) ==
    VeroBrixError(message, "VALIDATION_ERROR",
        IF field_value.truthy
        THEN WithKey(IF field_name.truthy
                     THEN WithKey(NoDetails, "field_name", field_name)
                     ELSE NoDetails,
                     "field_value", field_value.text)
        ELSE IF field_name.truthy
             THEN WithKey(NoDetails, "field_name", field_name)
             ELSE NoDetails)

ValidationInputs ==
    [message : Messages, field_name : FieldNames, field_value : FieldValues]

\* ValidationError(message, field_name=..., field_value=...) is constructed
RaiseValidationError ==
    Returns("ValidationError", ValidationError(text.message, text.field_name, text.field_value))

InitValidation == PureInit(ValidationInputs)
NextValidation == RaiseValidationError
SpecValidation == InitValidation /\ [][NextValidation]_vars

\* C21: for every field_value handed to ValidationError, None, 0 and the
\* empty string included, the details of the error hold the key
\* 'field_value' with the value str(field_value).
C21_FieldValueRecorded ==
    Called("ValidationError")
    => /\ "field_value" \in DOMAIN ret.value.details
       /\ ret.value.details["field_value"] = text.field_value.text

----------------------------------------------------------------------------
(* Tracked operations run side by side: ProvenanceLogger.track_operation *)

MaxOperations == 2    \* uses of track_operation per run

\* Threads that use track_operation, and nothing else, on one ledger; each
\* use makes up to three log_action calls.
InitOperations ==
    /\ LedgerInit(AllThreads, 3 * MaxOperations, 0, {}, 0)
    /\ ClassifierOff
    /\ PipelineOff
NextOperations ==
    \E t \in AllThreads :
        \/ CallTrackOperation(t)
        \/ LaCreate(t)
        \/ LaStore(t)
        \/ LaMaster(t)
        \/ LaSessionRead(t)
        \/ LaSessionWrite(t)
        \/ OpBody(t)
SpecOperations == InitOperations /\ [][NextOperations]_vars

IsOutcomeEntry(e) == e.action_type \in {"operation_complete", "operation_error"}

\* The start entry is in the ledger while the body runs
StartBeforeBody ==
    \A t \in AllThreads :
        pc[t] = "op_body" =>
            \E i \in 1..Len(entries) :
                /\ entries[i].entry_id = loc[t].start_id
                /\ entries[i].action_type = "operation_start"

\* Every outcome entry names a start entry that stands before it
OutcomeAfterStart ==
    \A j \in 1..Len(entries) :
        IsOutcomeEntry(entries[j]) =>
            \E i \in 1..(j - 1) :
                /\ entries[i].entry_id = entries[j].parent_entry_id
                /\ entries[i].action_type = "operation_start"

OutcomeConfidence ==
    \A j \in 1..Len(entries) :
        /\ entries[j].action_type = "operation_complete" => entries[j].confidence_level = "1.0"
        /\ entries[j].action_type = "operation_error" => entries[j].confidence_level = "0.0"

\* The outcome entry a thread appends is linked to the start entry of the
\* operation that thread is in, and the body of that operation has ended
OutcomeLinkedToOwnStart ==
    \A t \in AllThreads :
        (pc[t] = "la_store" /\ pc'[t] = "la_master" /\ IsOutcomeEntry(loc[t].entry))
        => /\ entries' = Append(entries, loc[t].entry)
           /\ loc[t].entry.parent_entry_id = loc[t].start_id
           /\ loc[t].start_id # NoId

\* Thread t leaves track_operation with the exception its body raised
LeavesWithFailure(t) ==
    /\ pc'[t] = "idle"
    /\ \/ pc[t] = "op_body"
       \/ pc[t] \in {"la_lock", "la_store", "la_master", "la_sread", "la_swrite"}
          /\ loc[t].ctx = "op_error"

ErrorEntryFirst ==
    \A t \in AllThreads :
        LeavesWithFailure(t) =>
            \E j \in 1..Len(entries') :
                /\ entries'[j].action_type = "operation_error"
                /\ entries'[j].parent_entry_id = loc[t].start_id

\* C22: the start entry of a tracked operation is in the ledger before the
\* body runs; the outcome entry is appended after the body ended and after
\* the start entry, and its parent_entry_id is the id of the operation's own
\* start entry, also with operations running side by side; a complete entry
\* has confidence 1.0 and an error entry 0.0; and a body's exception reaches
\* the caller only after the error entry is in the ledger.
C22_TrackOperationOrder ==
    /\ [](StartBeforeBody /\ OutcomeAfterStart /\ OutcomeConfidence)
    /\ [][OutcomeLinkedToOwnStart /\ ErrorEntryFirst]_vars

----------------------------------------------------------------------------
(* verify_integrity next to log_action: ProvenanceLogger.verify_integrity *)

\* verify_integrity takes no lock: its loop over self.entries runs while
\* other threads append.  The report under construction is kept in
\* loc[t].integrity; the loop has handled as many entries as the report
\* counts.
Handled(r) == r.verified_entries + Len(r.corrupted_entries) + Len(r.missing_hashes)

\* lines 265-270: the report before the loop
ReportAtStart(es) == [NoIntegrity EXCEPT !.total_entries = Len(es)]

\* lines 273-288: one round of the loop, for the entry e
ReportWith(r, e) ==
    IF IsMissing(e) THEN [r EXCEPT !.missing_hashes = Append(@, e.entry_id)]
    ELSE IF IsVerified(e) THEN [r EXCEPT !.verified_entries = @ + 1]
    ELSE [r EXCEPT !.corrupted_entries = Append(@, CorruptedRecord(e))]

\* line 290: the percentage, kept as the exact fraction num/den
ReportAtEnd(r) ==
    [r EXCEPT !.integrity_percentage =
        IF r.total_entries > 0 THEN [num |-> r.verified_entries * 100, den |-> r.total_entries]
                               ELSE [num |-> 100, den |-> 1]]

ViFrame == UNCHANGED <<entries, masterLog, sessionDoc, lock, clock, nextId, tampered,
                       ioLeft, opsDone, lastCall, callsLeft, inputs, cvars, avars>>

\* verify_integrity lines 265-270
ViBegin(t) ==
    /\ pc[t] = "idle"
    /\ pc' = [pc EXCEPT ![t] = "vi_loop"]
    /\ loc' = [loc EXCEPT ![t] = [LocInit EXCEPT !.ctx = "verify",
                                                 !.integrity = ReportAtStart(entries)]]
    /\ UNCHANGED ret
    /\ ViFrame

\* lines 272-288: the loop takes the next entry of the list, if there is one
ViEntry(t) ==
    /\ pc[t] = "vi_loop"
    /\ Handled(loc[t].integrity) < Len(entries)
    /\ loc' = [loc EXCEPT ![t].integrity =
                  ReportWith(@, entries[Handled(loc[t].integrity) + 1])]
    /\ UNCHANGED <<pc, ret>>
    /\ ViFrame

\* lines 272 and 290-292: the list is exhausted; the report is returned
ViEnd(t) ==
    /\ pc[t] = "vi_loop"
    /\ Handled(loc[t].integrity) >= Len(entries)
    /\ ret' = [op |-> "verify_integrity", value |-> ReportAtEnd(loc[t].integrity)]
    /\ pc' = [pc EXCEPT ![t] = "idle"]
    /\ loc' = [loc EXCEPT ![t] = LocInit]
    /\ ViFrame

\* An outside mutation: the entry_hash of a stored entry is erased.
EraseHash ==
    /\ \A t \in AllThreads : pc[t] \in {"idle", "off"}
    /\ \E i \in 1..Len(entries) :
          /\ entries[i].entry_hash # NoHash
          /\ entries' = [entries EXCEPT ![i].entry_hash = NoHash]
    /\ UNCHANGED <<inputs, ret, masterLog, sessionDoc, lock, clock, nextId, pc, loc,
                   tampered, ioLeft, opsDone, lastCall, callsLeft, cvars, avars>>

\* Threads that log and verify on one ledger, whose entries are also mutated
\* from outside.
InitIntegrity ==
    /\ LedgerInit(AllThreads, MaxCalls, 0, {StrX}, 0)
    /\ ClassifierOff
    /\ PipelineOff
NextIntegrity ==
    \/ \E t \in AllThreads :
        \/ CallLogAction(t)
        \/ LaCreate(t)
        \/ LaStore(t)
        \/ LaMaster(t)
        \/ LaSessionRead(t)
        \/ LaSessionWrite(t)
        \/ ViBegin(t)
        \/ ViEntry(t)
        \/ ViEnd(t)
    \/ Tamper
    \/ EraseHash
SpecIntegrity == InitIntegrity /\ [][NextIntegrity]_vars

\* The report counts every entry once, and its percentage is the share of
\* the verified entries
ReportAddsUp(r) ==
    /\ r.total_entries = r.verified_entries + Len(r.corrupted_entries) + Len(r.missing_hashes)
    /\ IF r.total_entries = 0
       THEN PctIs100(r.integrity_percentage)
       ELSE r.integrity_percentage.num * r.total_entries
               = 100 * r.verified_entries * r.integrity_percentage.den

VerifySteps == \E t \in AllThreads : pc[t] = "vi_loop" \/ pc'[t] = "vi_loop"

\* C23: every report of verify_integrity counts each entry once as verified,
\* corrupted or missing: total_entries is the sum of the three, the
\* percentage is 100 * verified_entries / total_entries, or 100 for the empty
\* ledger; and the steps of verify_integrity change no entry.
C23_IntegrityReport ==
    /\ [](ret.op = "verify_integrity" => ReportAddsUp(ret.value))
    /\ [][(VerifySteps /\ \A t \in AllThreads : pc[t] \in {"idle", "vi_loop"})
              => entries' = entries]_vars

----------------------------------------------------------------------------
(* Ties of the classifier: _identify_situation_type, _determine_jurisdiction *)

MaxTied == 2     \* fragments of a text handed to interpret_situation

\* Fragments that score for one situation type or one jurisdiction bucket
\* each, so that texts made of them produce ties
TieFragments ==
    { <<"t", "i", "c", "k", "e", "t">>,
      <<"f", "e", "e">>,
      <<"j", "u", "d", "g", "e">>,
      <<"b", "r", "e", "a", "c", "h">>,
      <<"a", "u", "d", "i", "t">>,
      <<"d", "e", "e", "d">>,
      <<"f", "i", "n", "a", "l", " ", "d", "e", "m", "a", "n", "d">>,
      <<"i", "r", "s">>,
      <<"d", "m", "v">>,
      <<"m", "a", "y", "o", "r">>,
      <<"u", "c", "c">>,
      <<"m", "a", "y", "o", "r", " ", "d", "e", "e", "d">>,
      <<"d", "m", "v", " ", "t", "i", "c", "k", "e", "t">> }

TieTexts == {Join(w) : w \in UNION {[1..k -> TieFragments] : k \in 0..MaxTied}}

\* interpret_situation lines 150, 153 and 159: the type and the jurisdiction
\* of the normalized text
InterpretTied ==
    Returns("interpret_situation",
            [type |-> _identify_situation_type(_normalize_text(text)),
             jurisdiction |-> _determine_jurisdiction(_normalize_text(text))])

InitTies == PureInit(TieTexts)
NextTies == InterpretTied
SpecTies == InitTies /\ [][NextTies]_vars

\* The declared order of the two tables
TypeOrder == <<"traffic_stop", "fee_demand", "court_summons", "contract_dispute",
               "administrative_action", "property_dispute">>
JurisdictionOrder == <<"federal", "state", "local", "commercial">>

\* The names with the highest score, when that score is above zero
Leaders(order, score) ==
    {n \in SeqToSet(order) : score[n] > 0 /\ \A m \in SeqToSet(order) : score[m] <= score[n]}

\* The name of the set that stands first in the order
FirstIn(order, names) ==
    order[CHOOSE i \in 1..Len(order) :
              /\ order[i] \in names
              /\ \A h \in 1..(i - 1) : order[h] \notin names]

\* C24: when several situation types tie for the highest score above zero,
\* the type returned is the tied one that stands first in the declared order
\* of the table; likewise the primary jurisdiction is the first of the tied
\* buckets in the order federal, state, local, commercial, and the other tied
\* buckets are listed as secondary.
C24_TieBreak ==
    Called("interpret_situation") =>
        LET t == _normalize_text(text)
            types == Leaders(TypeOrder, [n \in TypeNames |-> PresenceScore(n, t)])
            buckets == Leaders(JurisdictionOrder, [n \in JurisdictionNames |-> BucketScore(n, t)])
        IN  /\ TypeNames = SeqToSet(TypeOrder)
            /\ JurisdictionNames = SeqToSet(JurisdictionOrder)
            /\ types # {} => ret.value.type = FirstIn(TypeOrder, types)
            /\ buckets # {} =>
                  /\ ret.value.jurisdiction.primary = FirstIn(JurisdictionOrder, buckets)
                  /\ buckets \ {ret.value.jurisdiction.primary}
                        \subseteq SeqToSet(ret.value.jurisdiction.secondary)

\* 'mayor deed' then 'dmv ticket' in one text: property_dispute and
\* traffic_stop tie at 1, local and state tie at 1
C24_Witness ==
    /\ Called("interpret_situation")
    /\ text = Join(<<<<"m", "a", "y", "o", "r", " ", "d", "e", "e", "d">>, <<"d", "m", "v", " ", "t", "i", "c", "k", "e", "t">>>>)
    /\ ret.value.type = "traffic_stop"
    /\ ret.value.jurisdiction.primary = "state"
    /\ ret.value.jurisdiction.secondary = <<"local">>

----------------------------------------------------------------------------
(* Content hashes of log_action: falsy contents *)

DictEmpty == [kind |-> "dict", text |-> "{}", truthy |-> FALSE, raises |-> FALSE]

\* The input_data values of the callers: none (the default None), a
\* non-empty string, the empty string, zero and the empty dict
SuppliedInputs == {NoneV, StrX, StrE, IntZero, DictEmpty}

\* One thread logging actions with these inputs
InitContent ==
    /\ LedgerInit({"t1"}, MaxCalls, 0, SuppliedInputs, 0)
    /\ ClassifierOff
    /\ PipelineOff
NextContent ==
    \E t \in AllThreads :
        \/ CallLogAction(t)
        \/ LaCreate(t)
        \/ LaStore(t)
        \/ LaMaster(t)
        \/ LaSessionRead(t)
        \/ LaSessionWrite(t)
SpecContent == InitContent /\ [][NextContent]_vars

\* Thread t is in a log_action call that has built its entry
HasBuiltEntry(t) == pc[t] \in {"la_store", "la_master", "la_sread", "la_swrite"}

\* C25: the input_hash (output_hash) of an entry is absent exactly when the
\* call was given no input (output); for every value given, the empty
\* string, zero and the empty dict included, the entry holds the digest of
\* the value, not the value, so equal contents give equal hashes.
C25_ContentAddressed ==
    \A t \in AllThreads :
        HasBuiltEntry(t) =>
            /\ loc[t].entry.input_hash = NoHash <=> loc[t].args.input_data = NoneV
            /\ loc[t].entry.output_hash = NoHash <=> loc[t].args.output_data = NoneV
            /\ loc[t].args.input_data # NoneV =>
                  /\ loc[t].entry.input_hash = _generate_hash(loc[t].args.input_data)
                  /\ loc[t].entry.input_hash[1] = "sha256"

----------------------------------------------------------------------------
(* Clause importance: LegalNLPProcessor._assess_clause_importance *)

MaxParts == 2     \* fragments of a clause handed to _assess_clause_importance

\* lines 567-571
high_importance_terms ==
    << <<"c", "o", "n", "s", "t", "i", "t", "u", "t", "i", "o", "n", "a", "l">>,
       <<"f", "u", "n", "d", "a", "m", "e", "n", "t", "a", "l">>,
       <<"e", "s", "s", "e", "n", "t", "i", "a", "l">>,
       <<"c", "r", "i", "t", "i", "c", "a", "l">>,
       <<"m", "a", "n", "d", "a", "t", "o", "r", "y">>,
       <<"s", "h", "a", "l", "l">>,
       <<"m", "u", "s", "t">>,
       <<"r", "e", "q", "u", "i", "r", "e", "d">>,
       <<"p", "e", "n", "a", "l", "t", "y">>,
       <<"f", "i", "n", "e">>,
       <<"d", "a", "m", "a", "g", "e", "s">>,
       <<"l", "i", "a", "b", "l", "e">>,
       <<"b", "r", "e", "a", "c", "h">>,
       <<"d", "e", "f", "a", "u", "l", "t">>,
       <<"v", "i", "o", "l", "a", "t", "i", "o", "n">>,
       <<"j", "u", "r", "i", "s", "d", "i", "c", "t", "i", "o", "n">>,
       <<"c", "o", "u", "r", "t">>,
       <<"l", "e", "g", "a", "l">> >>

\* lines 574-577
medium_importance_terms ==
    << <<"s", "h", "o", "u", "l", "d">>,
       <<"o", "u", "g", "h", "t">>,
       <<"r", "e", "c", "o", "m", "m", "e", "n", "d", "e", "d">>,
       <<"a", "d", "v", "i", "s", "a", "b", "l", "e">>,
       <<"a", "p", "p", "r", "o", "p", "r", "i", "a", "t", "e">>,
       <<"r", "e", "a", "s", "o", "n", "a", "b", "l", "e">>,
       <<"p", "r", "o", "p", "e", "r">>,
       <<"s", "u", "i", "t", "a", "b", "l", "e">>,
       <<"n", "e", "c", "e", "s", "s", "a", "r", "y">> >>

\* line 583
penalty_phrases ==
    << <<"f", "a", "c", "e", " ", "p", "e", "n", "a", "l", "t", "i", "e", "s">>,
       <<"r", "e", "s", "u", "l", "t", " ", "i", "n", " ", "p", "e", "n", "a", "l", "t", "i", "e", "s">>,
       <<"p", "e", "n", "a", "l", "t", "i", "e", "s", " ", "i", "n", "c", "l", "u", "d", "i", "n", "g">> >>

\* sum(1 for term in terms if term in clause_lower) (lines 579-580)
RECURSIVE CountPresent(_, _)
CountPresent(terms, t) ==
    IF terms = <<>> THEN 0
    ELSE (IF Contains(t, Head(terms)) THEN 1 ELSE 0) + CountPresent(Tail(terms), t)

\* _assess_clause_importance lines 562-591
_assess_clause_importance(clause_text) ==
    IF CountPresent(high_importance_terms, Lower(clause_text)) >= 2
       \/ AnyIn(penalty_phrases, Lower(clause_text))
    THEN "high"
    ELSE IF CountPresent(high_importance_terms, Lower(clause_text)) >= 1
            \/ CountPresent(medium_importance_terms, Lower(clause_text)) >= 2
         THEN "medium"
         ELSE "low"

\* Fragments of clauses, the clauses of the test among them
ImportanceFragments ==
    { <<"T", "h", "e", " ", "p", "a", "r", "t", "y", " ", "s", "h", "a", "l", "l", " ", "c", "o", "m", "p", "l", "y">>,
      <<"o", "r", " ", "f", "a", "c", "e", " ", "p", "e", "n", "a", "l", "t", "i", "e", "s", ".">>,
      <<"T", "h", "e", " ", "c", "o", "u", "r", "t">>,
      <<"I", "t", " ", "i", "s", " ", "r", "e", "c", "o", "m", "m", "e", "n", "d", "e", "d">>,
      <<"t", "o", " ", "f", "o", "l", "l", "o", "w", " ", "p", "r", "o", "p", "e", "r", " ", "p", "r", "o", "c", "e", "d", "u", "r", "e", "s", ".">>,
      <<"T", "h", "e", " ", "p", "a", "r", "t", "y", " ", "s", "h", "o", "u", "l", "d", " ", "c", "o", "n", "s", "i", "d", "e", "r", " ", "t", "h", "e", " ", "o", "p", "t", "i", "o", "n", "s", ".">>,
      <<"T", "h", "i", "s", " ", "s", "e", "c", "t", "i", "o", "n", " ", "p", "r", "o", "v", "i", "d", "e", "s", " ", "g", "e", "n", "e", "r", "a", "l", " ", "i", "n", "f", "o", "r", "m", "a", "t", "i", "o", "n", ".">>,
      <<"M", "U", "S", "T">>,
      <<"D", "e", "f", "i", "n", "e", "d">> }

ImportanceTexts ==
    {Join(w) : w \in UNION {[1..k -> ImportanceFragments] : k \in 0..MaxParts}}

\* A call _assess_clause_importance(text)
AssessClauseImportance ==
    Returns("_assess_clause_importance", _assess_clause_importance(text))

InitImportance == PureInit(ImportanceTexts)
NextImportance == AssessClauseImportance
SpecImportance == InitImportance /\ [][NextImportance]_vars

\* The terms of the list that are substrings of the lowered clause
TermsIn(terms, t) == {x \in SeqToSet(terms) : Contains(Lower(t), x)}

\* C26: the importance is 'high' for at least two high-importance terms or a
\* penalty phrase, 'medium' for exactly one high-importance term or at least
\* one medium-importance term, and 'low' only without any term of the two
\* lists.
C26_ClauseImportance ==
    Called("_assess_clause_importance") =>
        LET high == Cardinality(TermsIn(high_importance_terms, text))
            medium == Cardinality(TermsIn(medium_importance_terms, text))
            penalty == TermsIn(penalty_phrases, text) # {}
        IN  ret.value = IF high >= 2 \/ penalty THEN "high"
                        ELSE IF high = 1 \/ medium >= 1 THEN "medium"
                        ELSE "low"

----------------------------------------------------------------------------
(* Scoring of decisions: SovereigntyScorer.score_decision *)

Absent == <<"absent">>     \* stands for a key the decision data does not hold

\* line 472: the words that mark a remedy type as unlawful
unlawful_remedy_types ==
    << <<"p", "u", "n", "i", "t", "i", "v", "e">>,
       <<"p", "e", "n", "a", "l", "t", "y">>,
       <<"f", "i", "n", "e">>,
       <<"p", "u", "n", "i", "s", "h", "m", "e", "n", "t">> >>

\* lines 473-475: the remedy score is halved and the overall score is
\* computed again; the other fields of the metrics stay as score_text set
\* them
HalvedRemedy(metrics) ==
    TheOnly({ [m EXCEPT !.remedy_score = halved,
                        !.overall_score =
                            RatAdd(RatAdd(RatMul(m.language_score, Rat(4, 10)),
                                          RatMul(halved, Rat(3, 10))),
                                   RatMul(m.autonomy_score, Rat(3, 10)))]
              : m \in {metrics}, halved \in {RatMul(metrics.remedy_score, Half)} })

\* lines 454-466: the text parts of the decision data, joined by blanks
CombinedText(description, reasoning) ==
    Join(<<description>> \o (IF reasoning = Absent THEN <<>> ELSE <<reasoning>>))

\* score_decision lines 451-478, for decision data with the keys description,
\* reasoning (if not Absent) and remedy_type (if not Absent)
score_decision(description, reasoning, remedy_type, order) ==
    TheOnly({ IF remedy_type # Absent /\ AnyIn(unlawful_remedy_types, Lower(remedy_type))
              THEN HalvedRemedy(m)
              ELSE m
              : m \in {score_text(CombinedText(description, reasoning), order)} })

\* The decision data of the callers: the description is kept in text, the
\* other keys in context
DecisionReasonings ==
    { Absent,
      <<"i", " ", "c", "h", "o", "o", "s", "e", " ", "t", "o">>,
      <<"p", "l", "e", "a", "s", "e", " ", "h", "e", "l", "p", " ", "m", "e">> }
DecisionRemedyTypes ==
    { Absent,
      <<"P", "u", "n", "i", "t", "i", "v", "e", " ", "d", "a", "m", "a", "g", "e", "s">>,
      <<"R", "e", "s", "t", "i", "t", "u", "t", "i", "o", "n">> }
DecisionExtras == [reasoning : DecisionReasonings, remedy_type : DecisionRemedyTypes]

\* A call score_decision(decision_data)
ScoreDecision ==
    \E order \in OrderingsOf(FlagCategories(_detect_servile_language(
                     Lower(CombinedText(text, context.reasoning))))) :
        Returns("score_decision",
                score_decision(text, context.reasoning, context.remedy_type, order))

InitDecision ==
    /\ LedgerInit({}, 0, 0, {}, 0)
    /\ text \in SpeechPhrases
    /\ context \in DecisionExtras
    /\ results = <<>>
    /\ scores = NoScores
    /\ PipelineOff
NextDecision ==
    \/ ScoreText
    \/ ScoreDecision
SpecDecision == InitDecision /\ [][NextDecision]_vars

\* C27: every metrics record returned by score_text or score_decision has
\* overall_score = 0.4 language_score + 0.3 remedy_score + 0.3 autonomy_score
\* for the scores it carries, and its sovereignty_level is the level the
\* thresholds give to that overall_score, also after score_decision halved
\* the remedy score.
C27_MetricsConsistent ==
    (Called("score_text") \/ Called("score_decision"))
    => /\ RatMul(ret.value.overall_score, Rat(10, 1))
            = RatAdd(RatAdd(RatMul(ret.value.language_score, Rat(4, 1)),
                            RatMul(ret.value.remedy_score, Rat(3, 1))),
                     RatMul(ret.value.autonomy_score, Rat(3, 1)))
       /\ ret.value.sovereignty_level = LevelOfScore(ret.value.overall_score)

----------------------------------------------------------------------------
(* The module-level logger: get_provenance_logger, log_provenance *)

MaxProvenanceCalls == 3    \* log_provenance calls per run

\* What the steps of log_provenance leave alone
GlobalLoggerFrame == UNCHANGED <<lvars, cvars, apc, fridayLog, stageMarks, kvars>>

\* log_provenance line 399 is entered
CallLogProvenance(t) ==
    /\ gpc[t] = "idle"
    /\ Len(provenance) + Cardinality({u \in AllThreads : gpc[u] # "idle"}) < MaxProvenanceCalls
    /\ gpc' = [gpc EXCEPT ![t] = "check"]
    /\ UNCHANGED <<globalLogger, loggersCreated, provenance, localLogger>>
    /\ GlobalLoggerFrame

\* get_provenance_logger line 389: "if _global_provenance_logger is None";
\* no lock is held
GplCheck(t) ==
    /\ gpc[t] = "check"
    /\ gpc' = [gpc EXCEPT ![t] = IF globalLogger = NoLogger THEN "construct" ELSE "return"]
    /\ UNCHANGED <<globalLogger, loggersCreated, provenance, localLogger>>
    /\ GlobalLoggerFrame

\* line 390, right-hand side: ProvenanceLogger(config_manager) is constructed
\* (__init__ lines 68-95: a new session id, a new session document, an empty
\* list of entries)
GplConstruct(t) ==
    /\ gpc[t] = "construct"
    /\ loggersCreated' = loggersCreated + 1
    /\ localLogger' = [localLogger EXCEPT ![t] = loggersCreated + 1]
    /\ gpc' = [gpc EXCEPT ![t] = "assign"]
    /\ UNCHANGED <<globalLogger, provenance>>
    /\ GlobalLoggerFrame

\* line 390: the new instance is stored in the global
GplAssign(t) ==
    /\ gpc[t] = "assign"
    /\ globalLogger' = localLogger[t]
    /\ gpc' = [gpc EXCEPT ![t] = "return"]
    /\ UNCHANGED <<loggersCreated, provenance, localLogger>>
    /\ GlobalLoggerFrame

\* line 392: "return _global_provenance_logger" reads the global again
GplReturn(t) ==
    /\ gpc[t] = "return"
    /\ localLogger' = [localLogger EXCEPT ![t] = globalLogger]
    /\ gpc' = [gpc EXCEPT ![t] = "log"]
    /\ UNCHANGED <<globalLogger, loggersCreated, provenance>>
    /\ GlobalLoggerFrame

\* log_provenance line 400: logger.log_action(...) appends the entry to the
\* ledger of the instance handed out; its session id and its session
\* document are the instance's
LpLogAction(t) ==
    /\ gpc[t] = "log"
    /\ provenance' = Append(provenance, [logger |-> localLogger[t], thread |-> t])
    /\ localLogger' = [localLogger EXCEPT ![t] = NoLogger]
    /\ gpc' = [gpc EXCEPT ![t] = "idle"]
    /\ UNCHANGED <<globalLogger, loggersCreated>>
    /\ GlobalLoggerFrame

\* Threads of one process that log through log_provenance
InitGlobalLogger ==
    /\ LedgerInit({}, 0, 0, {}, 0)
    /\ ClassifierOff
    /\ apc = "off"
    /\ fridayLog = <<>>
    /\ stageMarks = <<>>
    /\ globalLogger = NoLogger
    /\ loggersCreated = 0
    /\ provenance = <<>>
    /\ gpc = [t \in AllThreads |-> "idle"]
    /\ localLogger = [t \in AllThreads |-> NoLogger]
    /\ ConfigOff
NextGlobalLogger ==
    \E t \in AllThreads :
        \/ CallLogProvenance(t)
        \/ GplCheck(t)
        \/ GplConstruct(t)
        \/ GplAssign(t)
        \/ GplReturn(t)
        \/ LpLogAction(t)
SpecGlobalLogger == InitGlobalLogger /\ [][NextGlobalLogger]_vars

\* C28: at most one ProvenanceLogger is constructed per process, every call
\* of get_provenance_logger hands out that instance, also when the first
\* calls are made by several threads at once, and all entries logged through
\* log_provenance are in the ledger of one instance.
C28_OneLogger ==
    /\ loggersCreated <= 1
    /\ \A t \in AllThreads : gpc[t] = "log" => localLogger[t] = 1
    /\ \A i, j \in 1..Len(provenance) : provenance[i].logger = provenance[j].logger

----------------------------------------------------------------------------
(* Session closing: ProvenanceLogger.close_session *)

\* The session document is closed, its two counts are the number of its
\* entries, and it holds every entry of the ledger
DocumentClosedAndComplete ==
    /\ sessionDoc.status = "closed"
    /\ sessionDoc.final_entry_count = Len(sessionDoc.entries)
    /\ sessionDoc.integrity_check.total_entries = Len(sessionDoc.entries)
    /\ \A i \in 1..Len(entries) :
          \E j \in 1..Len(sessionDoc.entries) :
              sessionDoc.entries[j].entry_id = entries[i].entry_id

\* A step of a thread that is in close_session appends nothing to the ledger
\* but the one session_close entry
CloseAppendsOnce ==
    \A t \in AllThreads :
        (loc[t].ctx = "close" /\ pc'[t] # pc[t] /\ entries' # entries)
        => /\ pc[t] = "la_store"
           /\ entries' = Append(entries, loc[t].entry)
           /\ loc[t].entry.action_type = "session_close"

\* C29: close_session appends exactly one session_close entry, and once it
\* has returned the session document has status 'closed', its
\* final_summary.entry_count and its integrity_check.total_entries equal the
\* number of entries of the document, and no logged entry is missing from
\* the document, whatever log_action and close_session calls run before,
\* during or after it.
C29_SessionClosed ==
    /\ []((Quiescent /\ HasType("session_close")) => DocumentClosedAndComplete)
    /\ [][CloseAppendsOnce]_vars

----------------------------------------------------------------------------
(* The configuration manager: modules/config_manager.py *)

\* Python values a YAML document or an environment variable yields; a dict
\* is a function from key (a sequence of characters) to value
PyNone == [kind |-> "none"]
PyInt(n) == [kind |-> "int", n |-> n]
PyStr(s) == [kind |-> "str", s |-> s]
PyBool(b) == [kind |-> "bool", b |-> b]
PyFloat(s) == [kind |-> "float", repr |-> s]
PyDict(items) == [kind |-> "dict", items |-> items]

\* d[key] = value on a dict d
DictSet(d, key, value) == [k \in DOMAIN d \cup {key} |-> IF k = key THEN value ELSE d[k]]

analysis == <<"a", "n", "a", "l", "y", "s", "i", "s">>
logging == <<"l", "o", "g", "g", "i", "n", "g">>
templates == <<"t", "e", "m", "p", "l", "a", "t", "e", "s">>
document_generation == <<"d", "o", "c", "u", "m", "e", "n", "t", "_", "g", "e", "n", "e", "r", "a", "t", "i", "o", "n">>
timeout_seconds == <<"t", "i", "m", "e", "o", "u", "t", "_", "s", "e", "c", "o", "n", "d", "s">>
level == <<"l", "e", "v", "e", "l">>
directory == <<"d", "i", "r", "e", "c", "t", "o", "r", "y">>

\* _validate_config line 155
required_sections == <<analysis, logging, templates, document_generation>>

\* _get_minimal_config lines 82-106
_get_minimal_config ==
    [s \in {analysis, logging, templates, document_generation} |->
        CASE s = analysis -> PyDict(
                [k \in {<<"m", "a", "x", "_", "d", "o", "c", "u", "m", "e", "n", "t", "_", "s", "i", "z", "e">>, timeout_seconds, <<"e", "n", "a", "b", "l", "e", "_", "m", "l", "_", "f", "e", "a", "t", "u", "r", "e", "s">>, <<"e", "n", "a", "b", "l", "e", "_", "a", "d", "v", "a", "n", "c", "e", "d", "_", "n", "l", "p">>, <<"c", "o", "n", "f", "i", "d", "e", "n", "c", "e", "_", "t", "h", "r", "e", "s", "h", "o", "l", "d">>} |->
                    CASE k = <<"m", "a", "x", "_", "d", "o", "c", "u", "m", "e", "n", "t", "_", "s", "i", "z", "e">> -> PyStr(<<"1", "0", "M", "B">>)
                      [] k = timeout_seconds -> PyInt(300)
                      [] k = <<"e", "n", "a", "b", "l", "e", "_", "m", "l", "_", "f", "e", "a", "t", "u", "r", "e", "s">> -> PyBool(FALSE)
                      [] k = <<"e", "n", "a", "b", "l", "e", "_", "a", "d", "v", "a", "n", "c", "e", "d", "_", "n", "l", "p">> -> PyBool(TRUE)
                      [] OTHER -> PyFloat(<<"0", ".", "7">>)])
          [] s = logging -> PyDict(
                [k \in {level, <<"f", "i", "l", "e">>, <<"c", "o", "n", "s", "o", "l", "e", "_", "o", "u", "t", "p", "u", "t">>, <<"f", "i", "l", "e", "_", "o", "u", "t", "p", "u", "t">>} |->
                    CASE k = level -> PyStr(<<"I", "N", "F", "O">>)
                      [] k = <<"f", "i", "l", "e">> -> PyStr(<<"l", "o", "g", "s", "/", "v", "e", "r", "o", "b", "r", "i", "x", ".", "l", "o", "g">>)
                      [] OTHER -> PyBool(TRUE)])
          [] s = templates -> PyDict(
                [k \in {directory, <<"a", "u", "t", "o", "_", "r", "e", "l", "o", "a", "d">>} |->
                    IF k = directory THEN PyStr(<<"t", "e", "m", "p", "l", "a", "t", "e", "s", "/">>) ELSE PyBool(TRUE)])
          [] OTHER -> PyDict(
                [k \in {<<"o", "u", "t", "p", "u", "t", "_", "d", "i", "r", "e", "c", "t", "o", "r", "y">>, <<"d", "e", "f", "a", "u", "l", "t", "_", "f", "o", "r", "m", "a", "t">>} |->
                    IF k = <<"o", "u", "t", "p", "u", "t", "_", "d", "i", "r", "e", "c", "t", "o", "r", "y">> THEN PyStr(<<"o", "u", "t", "p", "u", "t", "/">>) ELSE PyStr(<<"t", "x", "t">>)])]

\* key.split('.') of get line 179
SplitDots(key) == LET dots == {i \in 1..Len(key) : key[i] = "."} \cup {0, Len(key) + 1} IN [n \in 1..(Cardinality(dots) - 1) |-> TheOnly({SubSeq(key, a + 1, b - 1) : <<a, b>> \in {p \in dots \X dots : p[1] < p[2] /\ Cardinality({d \in dots : d < p[1]}) = n - 1 /\ Cardinality({d \in dots : d < p[2]}) = n}})]

\* The loop of get lines 183-187 from the i-th key on: indexing a dict with a
\* key it lacks raises KeyError, indexing a string with a string, or None, an
\* int, a bool or a float, raises TypeError; both give the default
RECURSIVE GetFrom(_, _, _, _)
GetFrom(current, keys, i, default) == IF i > Len(keys) THEN current ELSE IF current.kind = "dict" /\ keys[i] \in DOMAIN current.items THEN GetFrom(current.items[keys[i]], keys, i + 1, default) ELSE default

\* ConfigManager.get lines 168-187
get(config, key, default) == GetFrom(PyDict(config), SplitDots(key), 1, default)

\* The configuration as callers see it: what get() answers for the keys
ConfigKeys == {analysis, <<"a", "n", "a", "l", "y", "s", "i", "s", ".", "t", "i", "m", "e", "o", "u", "t", "_", "s", "e", "c", "o", "n", "d", "s">>, <<"l", "o", "g", "g", "i", "n", "g", ".", "l", "e", "v", "e", "l">>, <<"t", "e", "m", "p", "l", "a", "t", "e", "s", ".", "d", "i", "r", "e", "c", "t", "o", "r", "y">>, templates, document_generation, <<"d", "a", "t", "a", "b", "a", "s", "e", ".", "p", "a", "t", "h">>}
Visible(config) == [key \in ConfigKeys |-> get(config, key, PyNone)]

IsDigits(s) == Len(s) > 0 /\ \A i \in 1..Len(s) : s[i] \in SeqToSet(Digits)
IsIntText(s) == IF Len(s) > 0 /\ s[1] \in {"-", "+"} THEN IsDigits(Tail(s)) ELSE IsDigits(s)
RECURSIVE DigitsValue(_)
DigitsValue(s) == IF s = <<>> THEN 0 ELSE 10 * DigitsValue(SubSeq(s, 1, Len(s) - 1)) + (CHOOSE d \in 0..9 : Digits[d + 1] = s[Len(s)])
IntValue(s) == IF s[1] = "-" THEN 0 - DigitsValue(Tail(s)) ELSE IF s[1] = "+" THEN DigitsValue(Tail(s)) ELSE DigitsValue(s)
IsFloatText(s) == \E i \in 1..Len(s) : s[i] = "." /\ IsIntText(SubSeq(s, 1, i - 1)) /\ IsDigits(SubSeq(s, i + 1, Len(s)))

\* _convert_env_value lines 121-141, for values made of letters, digits, a
\* sign and a point: 'true'/'false' in any case, then int(), then float(),
\* else the string itself
_convert_env_value(value) == IF Lower(value) \in {<<"t", "r", "u", "e">>, <<"f", "a", "l", "s", "e">>} THEN PyBool(Lower(value) = <<"t", "r", "u", "e">>) ELSE IF IsIntText(value) THEN PyInt(IntValue(value)) ELSE IF IsFloatText(value) THEN PyFloat(value) ELSE PyStr(value)

\* _set_nested_value lines 143-151 for a path of two keys: the section is
\* created when absent (line 148); assigning into a section that is not a
\* dict raises TypeError (line 151) after the section lookup
_set_nested_value(config, path, value) == IF path[1] \notin DOMAIN config THEN [raises |-> FALSE, config |-> DictSet(config, path[1], PyDict(DictSet(<<>>, path[2], value)))] ELSE IF config[path[1]].kind = "dict" THEN [raises |-> FALSE, config |-> DictSet(config, path[1], PyDict(DictSet(config[path[1]].items, path[2], value)))] ELSE [raises |-> TRUE, config |-> config]

\* env_mappings lines 110-116, in the order of the loop of line 118; the
\* variables the model's environments set
env_mappings == <<[env_var |-> "VEROBRIX_LOG_LEVEL", config_path |-> <<logging, level>>], [env_var |-> "VEROBRIX_TIMEOUT", config_path |-> <<analysis, timeout_seconds>>]>>

\* _apply_environment_overrides lines 108-119 from the i-th mapping on; env
\* maps the variables that are set to their values; an exception ends the loop
RECURSIVE ApplyFrom(_, _, _)
ApplyFrom(config, env, i) == IF i > Len(env_mappings) THEN [raises |-> FALSE, config |-> config] ELSE IF env_mappings[i].env_var \notin DOMAIN env THEN ApplyFrom(config, env, i + 1) ELSE IF _set_nested_value(config, env_mappings[i].config_path, _convert_env_value(env[env_mappings[i].env_var])).raises THEN [raises |-> TRUE, config |-> config] ELSE ApplyFrom(_set_nested_value(config, env_mappings[i].config_path, _convert_env_value(env[env_mappings[i].env_var])).config, env, i + 1)
_apply_environment_overrides(config, env) == ApplyFrom(config, env, 1)

\* isinstance(value, int): bool is a subclass of int
IsInstanceInt(value) == value.kind \in {"int", "bool"}
\* the number an int or a bool compares as
AsNumber(value) == IF value.kind = "bool" THEN (IF value.b THEN 1 ELSE 0) ELSE value.n

\* _validate_config lines 153-166: the exception it raises, or "none";
\* ".get" on a section that is not a dict raises AttributeError
_validate_config(config) ==
    IF \E i \in 1..Len(required_sections) : required_sections[i] \notin DOMAIN config
    THEN "Required configuration section missing"
    ELSE IF config[analysis].kind # "dict"
    THEN "AttributeError"
    ELSE IF ~IsInstanceInt(get(config, <<"a", "n", "a", "l", "y", "s", "i", "s", ".", "t", "i", "m", "e", "o", "u", "t", "_", "s", "e", "c", "o", "n", "d", "s">>, PyNone))
    THEN "analysis.timeout_seconds must be an integer"
    ELSE IF AsNumber(config[analysis].items[timeout_seconds]) <= 0
    THEN "analysis.timeout_seconds must be positive"
    ELSE "none"

\* What yaml.safe_load finds at a path: no file, a file that is not YAML, or
\* the document's value
NoFile == [kind |-> "no file"]
NotYaml == [kind |-> "not yaml"]

\* "yaml.safe_load(f) or {}" of line 59
Loaded(document) == IF document.kind = "dict" /\ DOMAIN document.items # {} THEN document.items ELSE <<>>

\* load_config lines 43-70 on the configuration before the call: the
\* manager's two fields after the call and the ConfigurationError raised, or
\* "none". _config is assigned at line 59 and _config_file_path at line 61,
\* before the overrides and the validation run on the new _config
load_config(before, config_path, document, env) ==
    IF document = NoFile
    THEN [_config |-> before._config, _config_file_path |-> before._config_file_path,
          raises |-> "Error loading configuration: Configuration file not found"]
    ELSE IF document = NotYaml
    THEN [_config |-> before._config, _config_file_path |-> before._config_file_path,
          raises |-> "Invalid YAML in configuration file"]
    ELSE IF _apply_environment_overrides(Loaded(document), env).raises
    THEN [_config |-> _apply_environment_overrides(Loaded(document), env).config, _config_file_path |-> config_path,
          raises |-> "Error loading configuration: TypeError"]
    ELSE [_config |-> _apply_environment_overrides(Loaded(document), env).config, _config_file_path |-> config_path,
          raises |-> IF _validate_config(_apply_environment_overrides(Loaded(document), env).config) = "none"
                     THEN "none"
                     ELSE "Error loading configuration: validation"]

\* The sections a document has besides analysis, and the values of
\* analysis.timeout_seconds it gives
Section(key, value) == PyDict(DictSet(<<>>, key, value))
OtherSections == {
        [s \in {logging, templates, document_generation} |-> IF s = logging THEN Section(level, PyStr(<<"D", "E", "B", "U", "G">>)) ELSE PyDict(<<>>)],
        [s \in {logging, document_generation} |-> IF s = logging THEN Section(level, PyStr(<<"D", "E", "B", "U", "G">>)) ELSE PyDict(<<>>)],
        [s \in {logging} |-> Section(level, PyStr(<<"W", "A", "R", "N", "I", "N", "G">>))] }
AnalysisSections == {Section(timeout_seconds, PyInt(600)), Section(timeout_seconds, PyInt(0)), Section(timeout_seconds, PyStr(<<"3", "0", "0">>)), Section(timeout_seconds, PyBool(TRUE)), PyDict(<<>>), PyInt(5)}
Documents == {NoFile, NotYaml, PyNone, PyDict(<<>>)} \cup {PyDict(DictSet(others, analysis, a)) : others \in OtherSections, a \in AnalysisSections} \cup {PyDict(others) : others \in OtherSections}
ConfigPaths == {"config/a.yaml", "config/b.yaml"}
TimeoutTexts == {<<"6", "0">>, <<"-", "1">>, <<"f", "a", "s", "t">>, <<"T", "r", "u", "e">>, <<"1", ".", "5">>}
Environments == {<<>>} \cup {[v \in {"VEROBRIX_TIMEOUT"} |-> t] : t \in TimeoutTexts} \cup {[v \in {"VEROBRIX_LOG_LEVEL"} |-> <<"E", "R", "R", "O", "R">>]} \cup {[v \in {"VEROBRIX_LOG_LEVEL", "VEROBRIX_TIMEOUT"} |-> IF v = "VEROBRIX_TIMEOUT" THEN <<"6", "0">> ELSE <<"E", "R", "R", "O", "R">>]}

\* What the steps of the configuration manager leave alone
ConfigFrame == UNCHANGED <<entries, masterLog, sessionDoc, lock, clock, nextId, pc, loc, tampered, ioLeft, opsDone, lastCall, callsLeft, inputs, cvars, apc, fridayLog, stageMarks, gvars>>

\* A call of load_config: the file at the path holds the document, the
\* environment is env
LoadConfig ==
    \E config_path \in ConfigPaths, document \in Documents, env \in Environments :
        \E after \in {load_config([_config |-> _config, _config_file_path |-> _config_file_path], config_path, document, env)} :
            /\ _config' = after._config
            /\ _config_file_path' = after._config_file_path
            /\ ret' = [op |-> "load_config", value |-> [raises |-> after.raises # "none", message |-> after.raises]]
            /\ ConfigFrame

\* A call of get
GetConfig ==
    \E key \in ConfigKeys :
        /\ ret' = [op |-> "get", value |-> get(_config, key, PyNone)]
        /\ UNCHANGED kvars
        /\ ConfigFrame

\* ConfigManager() where config/verobrix.yaml does not exist:
\* _load_default_config lines 72-80 installs the minimal configuration
InitConfig ==
    /\ LedgerInit({}, 0, 0, {}, 0)
    /\ ClassifierOff
    /\ apc = "off"
    /\ fridayLog = <<>>
    /\ stageMarks = <<>>
    /\ GlobalLoggerOff
    /\ _config = _get_minimal_config
    /\ _config_file_path = NoPath
NextConfig ==
    \/ LoadConfig
    \/ GetConfig
SpecConfig == InitConfig /\ [][NextConfig]_vars

\* A step in which load_config raised ConfigurationError
LoadConfigRaised == ret'.op = "load_config" /\ ret'.value.raises /\ <<ret, kvars>> # <<ret', kvars'>>

\* C30: load_config is all-or-nothing: whenever it raises ConfigurationError
\* (file not found, invalid YAML, a missing required section, a non-integer
\* or non-positive analysis.timeout_seconds), what get() answers and the
\* remembered config file path are the same as before the call.
C30_AllOrNothing == [][LoadConfigRaised => (Visible(_config') = Visible(_config) /\ _config_file_path' = _config_file_path)]_vars

====
